---- MODULE Spec2Model ----
(***************************************************************************)
(* A model of cachemir: the typed in-memory store (pkg/cache), the        *)
(* server's command dispatcher (pkg/server) that marshals store results    *)
(* into protocol responses, the goroutines that call the store under its   *)
(* lock, the hash ring (pkg/hash), the client with its connection pools    *)
(* and retries (pkg/client), the wire codec (pkg/protocol), and the       *)
(* server's connections and its listener (pkg/server).                     *)
(*                                                                         *)
(* Byte strings are sequences of one-character strings, so that            *)
(* strconv.ParseInt and strconv.FormatInt are modelled by what they do.    *)
(* Time is a discrete clock; one tick is half a second (Second == 2), so   *)
(* that sub-second durations exist.  int64 is modelled as a two's          *)
(* complement integer of IntBits bits.                                     *)
(***************************************************************************)
EXTENDS Integers, Sequences, FiniteSets, TLC

\* ------------------------------------------------------------------ bounds

\* Width in bits of the modelled int64.
IntBits == 3
\* The clock runs from 1 to MaxTime.
MaxTime == 3
\* Lists are not pushed beyond this length.
MaxListLen == 3
MaxArgs == 3
MaxCalls == 4
HashBits == 4
VirtualNodes == 2
MaxConnsPerNode == 1
RetryAttempts == 1
MaxChanges == 1
MaxDials == 2
MaxClientCalls == 1
\* Width in bits of uint64, int64 and int in the codec.
WireBits == 8
\* Payloads from the network are not longer than this.
MaxPayload == 4
\* Streams hold at most this many frames.
MaxFrames == 2
\* A peer sends at most this many frames on a connection.
MaxRequests == 2
\* Each goroutine calls Ping at most this many times.
MaxPings == 2
\* The logged accept failures are counted up to this number, and from 0 again.
MaxAcceptErrors == 2
\* A line of text has at most this many tokens after the first.
MaxTextArgs == 4
\* The reaper makes at most this many passes.
MaxPasses == 2
\* The goroutines make at most this many calls while the reaper runs.
MaxReaperCalls == 2
\* The caller whose attempts are retried makes at most this many calls.
MaxRetryCalls == 3

\* ------------------------------------------------------- program constants

\* time.Second, in clock ticks.
Second == 2
\* The zero time.Time: "no expiration".
ZeroTime == 0
\* The bytes of the length that precedes a payload.
protocolHeaderSize == 4

TypeString == "string"
TypeHash == "hash"
TypeList == "list"
TypeSet == "set"

RECURSIVE Pow2(_)
Pow2(n) == IF n = 0 THEN 1 ELSE 2 * Pow2(n - 1)

MaxInt64 == Pow2(IntBits - 1) - 1
MinInt64 == 0 - Pow2(IntBits - 1)

\* Two's complement wrap-around of int64 arithmetic.
WrapInt64(n) == ((n - MinInt64) % Pow2(IntBits)) + MinInt64

\* ------------------------------------------------------------------ strconv

DigitChars == <<"0", "1", "2", "3", "4", "5", "6", "7", "8", "9">>

IsDigit(c) == \E i \in 1..10 : DigitChars[i] = c

DigitVal(c) == (CHOOSE i \in 1..10 : DigitChars[i] = c) - 1

\* The value of a non-empty sequence of decimal digits, -1 on a syntax error.
RECURSIVE ParseUint(_)
ParseUint(s) ==
    IF Len(s) = 0 THEN -1
    ELSE IF ~IsDigit(s[Len(s)]) THEN -1
    ELSE IF Len(s) = 1 THEN DigitVal(s[1])
    ELSE LET hi == ParseUint(SubSeq(s, 1, Len(s) - 1))
         IN  IF hi < 0 THEN -1 ELSE hi * 10 + DigitVal(s[Len(s)])

\* strconv.ParseInt(s, 10, 64): an optional sign, then decimal digits; a
\* syntax error or a value out of the int64 range is an error.
ParseInt(s) ==
    IF Len(s) = 0 THEN [val |-> 0, ok |-> FALSE]
    ELSE LET neg == s[1] = "-"
             body == IF s[1] \in {"+", "-"} THEN Tail(s) ELSE s
             un == ParseUint(body)
         IN  IF un < 0 THEN [val |-> 0, ok |-> FALSE]
             ELSE IF ~neg /\ un > MaxInt64 THEN [val |-> 0, ok |-> FALSE]
             ELSE IF neg /\ un > 0 - MinInt64 THEN [val |-> 0, ok |-> FALSE]
             ELSE [val |-> IF neg THEN 0 - un ELSE un, ok |-> TRUE]

RECURSIVE FormatUint(_)
FormatUint(n) ==
    IF n < 10 THEN <<DigitChars[n + 1]>>
    ELSE FormatUint(n \div 10) \o <<DigitChars[(n % 10) + 1]>>

\* strconv.FormatInt(n, 10)
FormatInt(n) == IF n < 0 THEN <<"-">> \o FormatUint(0 - n) ELSE FormatUint(n)

\* -------------------------------------------------------------------- values

EmptyHash == [f \in {} |-> <<>>]

\* A Value: the type tag, the payload of that type (the other payloads stay
\* empty), and the expiration time.
NewValue(type) ==
    [Type |-> type, Str |-> <<>>, Hash |-> EmptyHash, List |-> <<>>,
     Set |-> {}, ExpiresAt |-> ZeroTime]

\* c.data[key] = value
Put(d, key, value) ==
    [k \in (DOMAIN d) \cup {key} |-> IF k = key THEN value ELSE d[k]]

\* delete(c.data, key)
Delete(d, key) == [k \in (DOMAIN d) \ {key} |-> d[k]]

\* isExpired as it would be with !now.Before(ExpiresAt) in place of now.After.
isExpiredAtInstant(value, t) == value.ExpiresAt # ZeroTime /\ t >= value.ExpiresAt

isExpired(value, t) == value.ExpiresAt # ZeroTime /\ t > value.ExpiresAt

\* !exists || c.isExpired(value)
Missing(d, t, key) == key \notin DOMAIN d \/ isExpired(d[key], t)

\* ------------------------------------------------ store: strings, counters
\* Every operation is a function of the store d, the clock t and its
\* arguments, and yields the store afterwards and the returned value.

Get(d, t, key) ==
    IF Missing(d, t, key) THEN [data |-> d, ret |-> [val |-> <<>>, ok |-> FALSE]]
    ELSE IF d[key].Type # TypeString
         THEN [data |-> d, ret |-> [val |-> <<>>, ok |-> FALSE]]
         ELSE [data |-> d, ret |-> [val |-> d[key].Str, ok |-> TRUE]]

Set(d, t, key, val, ttl) ==
    LET value == [NewValue(TypeString) EXCEPT
                    !.Str = val,
                    !.ExpiresAt = IF ttl > 0 THEN t + ttl ELSE ZeroTime]
    IN  [data |-> Put(d, key, value), ret |-> TRUE]

Del(d, t, key) ==
    IF key \in DOMAIN d
    THEN [data |-> Delete(d, key), ret |-> TRUE]
    ELSE [data |-> d, ret |-> FALSE]

Exists(d, t, key) ==
    IF Missing(d, t, key) THEN [data |-> d, ret |-> FALSE]
    ELSE [data |-> d, ret |-> TRUE]

\* IncrBy as it would be if it stored the delta, not the sum.
IncrByStoringDelta(d, t, key, delta) ==
    IF Missing(d, t, key)
    THEN [data |-> Put(d, key, [NewValue(TypeString) EXCEPT !.Str = FormatInt(delta)]),
          ret |-> [val |-> delta, err |-> ""]]
    ELSE IF d[key].Type # TypeString
    THEN [data |-> d, ret |-> [val |-> 0, err |-> "value is not a string"]]
    ELSE LET current == ParseInt(d[key].Str)
             newVal == WrapInt64(current.val + delta)
         IN  IF ~current.ok
             THEN [data |-> d, ret |-> [val |-> 0, err |-> "value is not an integer"]]
             ELSE [data |-> Put(d, key, [d[key] EXCEPT !.Str = FormatInt(delta)]),
                   ret |-> [val |-> newVal, err |-> ""]]

\* IncrBy as it would be if it stored the sum in a new Value.
IncrByDroppingExpiration(d, t, key, delta) ==
    IF Missing(d, t, key)
    THEN [data |-> Put(d, key, [NewValue(TypeString) EXCEPT !.Str = FormatInt(delta)]),
          ret |-> [val |-> delta, err |-> ""]]
    ELSE IF d[key].Type # TypeString
    THEN [data |-> d, ret |-> [val |-> 0, err |-> "value is not a string"]]
    ELSE LET current == ParseInt(d[key].Str)
             newVal == WrapInt64(current.val + delta)
         IN  IF ~current.ok
             THEN [data |-> d, ret |-> [val |-> 0, err |-> "value is not an integer"]]
             ELSE [data |-> Put(d, key, [NewValue(TypeString) EXCEPT
                                           !.Str = FormatInt(newVal)]),
                   ret |-> [val |-> newVal, err |-> ""]]

\* IncrBy as it would be if a string that is no integer counted as zero.
IncrByFromZeroOnGarbage(d, t, key, delta) ==
    IF Missing(d, t, key)
    THEN [data |-> Put(d, key, [NewValue(TypeString) EXCEPT !.Str = FormatInt(delta)]),
          ret |-> [val |-> delta, err |-> ""]]
    ELSE IF d[key].Type # TypeString
    THEN [data |-> d, ret |-> [val |-> 0, err |-> "value is not a string"]]
    ELSE LET current == ParseInt(d[key].Str)
             newVal == WrapInt64(current.val + delta)
         IN  [data |-> Put(d, key, [d[key] EXCEPT !.Str = FormatInt(newVal)]),
              ret |-> [val |-> newVal, err |-> ""]]

IncrBy(d, t, key, delta) ==
    IF Missing(d, t, key)
    THEN [data |-> Put(d, key, [NewValue(TypeString) EXCEPT !.Str = FormatInt(delta)]),
          ret |-> [val |-> delta, err |-> ""]]
    ELSE IF d[key].Type # TypeString
    THEN [data |-> d, ret |-> [val |-> 0, err |-> "value is not a string"]]
    ELSE LET current == ParseInt(d[key].Str)
             newVal == WrapInt64(current.val + delta)
         IN  IF ~current.ok
             THEN [data |-> d, ret |-> [val |-> 0, err |-> "value is not an integer"]]
             ELSE [data |-> Put(d, key, [d[key] EXCEPT !.Str = FormatInt(newVal)]),
                   ret |-> [val |-> newVal, err |-> ""]]

Incr(d, t, key) == IncrBy(d, t, key, 1)

Decr(d, t, key) == IncrBy(d, t, key, -1)

\* ------------------------------------------------------- store: expiration

Expire(d, t, key, ttl) ==
    IF Missing(d, t, key) THEN [data |-> d, ret |-> FALSE]
    ELSE [data |-> Put(d, key, [d[key] EXCEPT !.ExpiresAt = t + ttl]), ret |-> TRUE]

\* TTL as it would be if it returned the expiration time, not what remains.
TTLAbsolute(d, t, key) ==
    IF Missing(d, t, key) THEN [data |-> d, ret |-> (-2) * Second]
    ELSE IF d[key].ExpiresAt = ZeroTime THEN [data |-> d, ret |-> (-1) * Second]
    ELSE [data |-> d, ret |-> d[key].ExpiresAt]

TTL(d, t, key) ==
    IF Missing(d, t, key) THEN [data |-> d, ret |-> (-2) * Second]
    ELSE IF d[key].ExpiresAt = ZeroTime THEN [data |-> d, ret |-> (-1) * Second]
    ELSE LET remaining == d[key].ExpiresAt - t
         IN  IF remaining <= 0 THEN [data |-> d, ret |-> (-2) * Second]
             ELSE [data |-> d, ret |-> remaining]

Persist(d, t, key) ==
    IF Missing(d, t, key) THEN [data |-> d, ret |-> FALSE]
    ELSE [data |-> Put(d, key, [d[key] EXCEPT !.ExpiresAt = ZeroTime]), ret |-> TRUE]

\* ------------------------------------------------------------ store: hashes

HGet(d, t, key, field) ==
    IF Missing(d, t, key) \/ d[key].Type # TypeHash
    THEN [data |-> d, ret |-> [val |-> <<>>, ok |-> FALSE]]
    ELSE IF field \in DOMAIN d[key].Hash
         THEN [data |-> d, ret |-> [val |-> d[key].Hash[field], ok |-> TRUE]]
         ELSE [data |-> d, ret |-> [val |-> <<>>, ok |-> FALSE]]

\* hash[field] = val
HashPut(hash, field, val) ==
    [f \in (DOMAIN hash) \cup {field} |-> IF f = field THEN val ELSE hash[f]]

\* delete(hash, field)
HashDelete(hash, field) == [f \in (DOMAIN hash) \ {field} |-> hash[f]]

\* HSet as it would be if it replaced a value of another type by a new hash.
HSetOverwritingOtherTypes(d, t, key, field, val) ==
    IF Missing(d, t, key) \/ d[key].Type # TypeHash
    THEN [data |-> Put(d, key, [NewValue(TypeHash) EXCEPT
                                  !.Hash = HashPut(EmptyHash, field, val)]),
          ret |-> TRUE]
    ELSE [data |-> Put(d, key, [d[key] EXCEPT !.Hash = HashPut(@, field, val)]),
          ret |-> TRUE]

\* HSet returns nothing; ret is TRUE throughout.
HSet(d, t, key, field, val) ==
    IF Missing(d, t, key)
    THEN [data |-> Put(d, key, [NewValue(TypeHash) EXCEPT
                                  !.Hash = HashPut(EmptyHash, field, val)]),
          ret |-> TRUE]
    ELSE IF d[key].Type # TypeHash
    THEN [data |-> d, ret |-> TRUE]
    ELSE [data |-> Put(d, key, [d[key] EXCEPT !.Hash = HashPut(@, field, val)]),
          ret |-> TRUE]

HDel(d, t, key, field) ==
    IF Missing(d, t, key) \/ d[key].Type # TypeHash
    THEN [data |-> d, ret |-> FALSE]
    ELSE IF field \in DOMAIN d[key].Hash
         THEN [data |-> Put(d, key, [d[key] EXCEPT !.Hash = HashDelete(@, field)]),
               ret |-> TRUE]
         ELSE [data |-> d, ret |-> FALSE]

HExists(d, t, key, field) ==
    IF Missing(d, t, key) \/ d[key].Type # TypeHash
    THEN [data |-> d, ret |-> FALSE]
    ELSE [data |-> d, ret |-> field \in DOMAIN d[key].Hash]

\* The result is a copy of the hash (an empty map when there is none).
HGetAll(d, t, key) ==
    IF Missing(d, t, key) \/ d[key].Type # TypeHash
    THEN [data |-> d, ret |-> EmptyHash]
    ELSE [data |-> d, ret |-> d[key].Hash]

\* -------------------------------------------------------------- store: lists

\* for i := len(values) - 1; i >= 0; i-- { list = append([]string{values[i]}, list...) }
\* (i is the 1-based index of the value to insert next)
RECURSIVE LPushLoop(_, _, _)
LPushLoop(list, values, i) ==
    IF i < 1 THEN list
    ELSE LPushLoop(<<values[i]>> \o list, values, i - 1)

LPush(d, t, key, values) ==
    IF Missing(d, t, key)
    THEN LET list == LPushLoop(<<>>, values, Len(values))
         IN  [data |-> Put(d, key, [NewValue(TypeList) EXCEPT !.List = list]),
              ret |-> Len(list)]
    ELSE IF d[key].Type # TypeList
    THEN [data |-> d, ret |-> 0]
    ELSE LET list == LPushLoop(d[key].List, values, Len(values))
         IN  [data |-> Put(d, key, [d[key] EXCEPT !.List = list]),
              ret |-> Len(list)]

\* RPush taking an entry that is expired for the list to append to.
RPushOntoExpired(d, t, key, values) ==
    IF key \notin DOMAIN d
    THEN [data |-> Put(d, key, [NewValue(TypeList) EXCEPT !.List = values]),
          ret |-> Len(values)]
    ELSE IF d[key].Type # TypeList
    THEN [data |-> d, ret |-> 0]
    ELSE LET list == d[key].List \o values
         IN  [data |-> Put(d, key, [d[key] EXCEPT !.List = list]),
              ret |-> Len(list)]

RPush(d, t, key, values) ==
    IF Missing(d, t, key)
    THEN [data |-> Put(d, key, [NewValue(TypeList) EXCEPT !.List = values]),
          ret |-> Len(values)]
    ELSE IF d[key].Type # TypeList
    THEN [data |-> d, ret |-> 0]
    ELSE LET list == d[key].List \o values
         IN  [data |-> Put(d, key, [d[key] EXCEPT !.List = list]),
              ret |-> Len(list)]

LPop(d, t, key) ==
    IF Missing(d, t, key) \/ d[key].Type # TypeList
    THEN [data |-> d, ret |-> [val |-> <<>>, ok |-> FALSE]]
    ELSE IF Len(d[key].List) = 0
    THEN [data |-> d, ret |-> [val |-> <<>>, ok |-> FALSE]]
    ELSE [data |-> Put(d, key, [d[key] EXCEPT !.List = Tail(@)]),
          ret |-> [val |-> Head(d[key].List), ok |-> TRUE]]

\* RPop as it would be if it took the first element.
RPopTakingFirst(d, t, key) ==
    IF Missing(d, t, key) \/ d[key].Type # TypeList
    THEN [data |-> d, ret |-> [val |-> <<>>, ok |-> FALSE]]
    ELSE IF Len(d[key].List) = 0
    THEN [data |-> d, ret |-> [val |-> <<>>, ok |-> FALSE]]
    ELSE [data |-> Put(d, key, [d[key] EXCEPT !.List = Tail(@)]),
          ret |-> [val |-> Head(d[key].List), ok |-> TRUE]]

RPop(d, t, key) ==
    IF Missing(d, t, key) \/ d[key].Type # TypeList
    THEN [data |-> d, ret |-> [val |-> <<>>, ok |-> FALSE]]
    ELSE IF Len(d[key].List) = 0
    THEN [data |-> d, ret |-> [val |-> <<>>, ok |-> FALSE]]
    ELSE LET list == d[key].List
         IN  [data |-> Put(d, key, [d[key] EXCEPT
                                      !.List = SubSeq(list, 1, Len(list) - 1)]),
              ret |-> [val |-> list[Len(list)], ok |-> TRUE]]

LLen(d, t, key) ==
    IF Missing(d, t, key) \/ d[key].Type # TypeList
    THEN [data |-> d, ret |-> 0]
    ELSE [data |-> d, ret |-> Len(d[key].List)]

\* --------------------------------------------------------------- store: sets

\* The loop of SAdd as it would be if it counted every member given.
RECURSIVE SAddLoopCountingAll(_, _, _)
SAddLoopCountingAll(acc, members, i) ==
    IF i > Len(members) THEN acc
    ELSE SAddLoopCountingAll([set |-> acc.set \cup {members[i]}, n |-> acc.n + 1],
                             members, i + 1)

\* for _, member := range members { if !set[member] { set[member] = true; added++ } }
RECURSIVE SAddLoop(_, _, _)
SAddLoop(acc, members, i) ==
    IF i > Len(members) THEN acc
    ELSE IF members[i] \notin acc.set
         THEN SAddLoop([set |-> acc.set \cup {members[i]}, n |-> acc.n + 1],
                       members, i + 1)
         ELSE SAddLoop(acc, members, i + 1)

SAdd(d, t, key, members) ==
    IF Missing(d, t, key)
    THEN LET r == SAddLoop([set |-> {}, n |-> 0], members, 1)
         IN  [data |-> Put(d, key, [NewValue(TypeSet) EXCEPT !.Set = r.set]),
              ret |-> r.n]
    ELSE IF d[key].Type # TypeSet
    THEN [data |-> d, ret |-> 0]
    ELSE LET r == SAddLoop([set |-> d[key].Set, n |-> 0], members, 1)
         IN  [data |-> Put(d, key, [d[key] EXCEPT !.Set = r.set]), ret |-> r.n]

\* for _, member := range members { if set[member] { delete(set, member); removed++ } }
RECURSIVE SRemLoop(_, _, _)
SRemLoop(acc, members, i) ==
    IF i > Len(members) THEN acc
    ELSE IF members[i] \in acc.set
         THEN SRemLoop([set |-> acc.set \ {members[i]}, n |-> acc.n + 1],
                       members, i + 1)
         ELSE SRemLoop(acc, members, i + 1)

SRem(d, t, key, members) ==
    IF Missing(d, t, key) \/ d[key].Type # TypeSet
    THEN [data |-> d, ret |-> 0]
    ELSE LET r == SRemLoop([set |-> d[key].Set, n |-> 0], members, 1)
         IN  [data |-> Put(d, key, [d[key] EXCEPT !.Set = r.set]), ret |-> r.n]

\* The members in the map's iteration order, which is not defined: the
\* result is modelled as the set of members.
SMembers(d, t, key) ==
    IF Missing(d, t, key) \/ d[key].Type # TypeSet
    THEN [data |-> d, ret |-> {}]
    ELSE [data |-> d, ret |-> d[key].Set]

SIsMember(d, t, key, member) ==
    IF Missing(d, t, key) \/ d[key].Type # TypeSet
    THEN [data |-> d, ret |-> FALSE]
    ELSE [data |-> d, ret |-> member \in d[key].Set]

\* -------------------------------------------------------------------- reaper

\* One pass of cleanupExpired at clock time t.
ReapPass(d, t) ==
    [k \in {x \in DOMAIN d : ~(d[x].ExpiresAt # ZeroTime /\ t > d[x].ExpiresAt)}
       |-> d[k]]

\* ------------------------------------------------------------------ protocol

CmdGet == 0
CmdSet == 1
CmdDel == 2
CmdExists == 3
CmdIncr == 4
CmdDecr == 5
CmdIncrBy == 6
CmdDecrBy == 7
CmdExpire == 8
CmdTTL == 9
CmdPersist == 10
CmdHGet == 11
CmdHSet == 12
CmdHDel == 13
CmdHGetAll == 14
CmdHExists == 15
CmdLPush == 16
CmdRPush == 17
CmdLPop == 18
CmdRPop == 19
CmdLLen == 20
CmdSAdd == 21
CmdSRem == 22
CmdSMembers == 23
CmdSIsMember == 24
CmdPing == 25

RespOK == 0
RespError == 1
RespString == 2
RespInt == 3
RespArray == 4
RespNil == 5

\* A Command.  TTL is a duration in ticks.
Command(type, key, args, ttl) == [Type |-> type, Key |-> key, Args |-> args, TTL |-> ttl]

\* A Response: Str, Int and Arr are the Data of a string, an integer and an
\* array response; Error is the message (in pieces) of an error response.
Response(type) == [Type |-> type, Str |-> <<>>, Int |-> 0, Arr |-> <<>>, Error |-> <<>>]

ErrorResponse(msg) == [Response(RespError) EXCEPT !.Error = msg]
StringResponse(str) == [Response(RespString) EXCEPT !.Str = str]
IntResponse(n) == [Response(RespInt) EXCEPT !.Int = n]
ArrayResponse(arr) == [Response(RespArray) EXCEPT !.Arr = arr]

\* -------------------------------------------------------------------- server

minHashFields == 2

parseIntArg(arg) == ParseInt(arg)

\* int64(ttl.Seconds()): the duration in whole seconds, truncated towards zero.
WholeSeconds(dur) == IF dur >= 0 THEN dur \div Second ELSE 0 - ((0 - dur) \div Second)

BoolInt(b) == IF b THEN 1 ELSE 0

\* The orders in which a map with the keys S can be iterated.
Orders(S) ==
    {o \in [1..Cardinality(S) -> S] : \A i, j \in 1..Cardinality(S) : o[i] = o[j] => i = j}

\* Every handler is a function of the store d, the clock t and the command,
\* and yields the store afterwards and the response.

handlePing(d, t, cmd) ==
    [data |-> d, ret |-> StringResponse(<<"P", "O", "N", "G">>)]

handleGet(d, t, cmd) ==
    LET r == Get(d, t, cmd.Key)
    IN  IF ~r.ret.ok THEN [data |-> r.data, ret |-> Response(RespNil)]
        ELSE [data |-> r.data, ret |-> StringResponse(r.ret.val)]

handleSet(d, t, cmd) ==
    IF Len(cmd.Args) = 0
    THEN [data |-> d, ret |-> ErrorResponse(<<"SET requires a value">>)]
    ELSE [data |-> Set(d, t, cmd.Key, cmd.Args[1], cmd.TTL).data,
          ret |-> Response(RespOK)]

handleDel(d, t, cmd) ==
    LET r == Del(d, t, cmd.Key)
    IN  [data |-> r.data, ret |-> IntResponse(BoolInt(r.ret))]

handleExists(d, t, cmd) ==
    LET r == Exists(d, t, cmd.Key)
    IN  [data |-> r.data, ret |-> IntResponse(BoolInt(r.ret))]

\* The response to what IncrBy (or Incr, Decr) returned.
CounterResponse(r) ==
    IF r.ret.err # ""
    THEN [data |-> r.data, ret |-> ErrorResponse(<<r.ret.err>>)]
    ELSE [data |-> r.data, ret |-> IntResponse(r.ret.val)]

handleIncr(d, t, cmd) == CounterResponse(Incr(d, t, cmd.Key))

handleDecr(d, t, cmd) == CounterResponse(Decr(d, t, cmd.Key))

handleIncrBy(d, t, cmd) ==
    IF Len(cmd.Args) = 0
    THEN [data |-> d, ret |-> ErrorResponse(<<"INCRBY requires a delta value">>)]
    ELSE LET parsed == parseIntArg(cmd.Args[1])
             delta == IF parsed.ok THEN parsed.val ELSE 1
         IN  CounterResponse(IncrBy(d, t, cmd.Key, delta))

handleDecrBy(d, t, cmd) ==
    IF Len(cmd.Args) = 0
    THEN [data |-> d, ret |-> ErrorResponse(<<"DECRBY requires a delta value">>)]
    ELSE LET parsed == parseIntArg(cmd.Args[1])
             delta == IF parsed.ok THEN WrapInt64(0 - parsed.val) ELSE 1
         IN  CounterResponse(IncrBy(d, t, cmd.Key, delta))

handleExpire(d, t, cmd) ==
    LET r == Expire(d, t, cmd.Key, cmd.TTL)
    IN  [data |-> r.data, ret |-> IntResponse(BoolInt(r.ret))]

handleTTL(d, t, cmd) ==
    LET r == TTL(d, t, cmd.Key)
    IN  [data |-> r.data, ret |-> IntResponse(WholeSeconds(r.ret))]

handlePersist(d, t, cmd) ==
    LET r == Persist(d, t, cmd.Key)
    IN  [data |-> r.data, ret |-> IntResponse(BoolInt(r.ret))]

handleHGet(d, t, cmd) ==
    IF Len(cmd.Args) = 0
    THEN [data |-> d, ret |-> ErrorResponse(<<"HGET requires a field">>)]
    ELSE LET r == HGet(d, t, cmd.Key, cmd.Args[1])
         IN  IF ~r.ret.ok THEN [data |-> r.data, ret |-> Response(RespNil)]
             ELSE [data |-> r.data, ret |-> StringResponse(r.ret.val)]

\* HSET that stores the field with an empty value when the value is missing.
handleHSetFieldOnly(d, t, cmd) ==
    IF Len(cmd.Args) = 0
    THEN [data |-> d, ret |-> ErrorResponse(<<"HSET requires field and value">>)]
    ELSE [data |-> HSet(d, t, cmd.Key, cmd.Args[1],
                        IF Len(cmd.Args) > 1 THEN cmd.Args[2] ELSE <<>>).data,
          ret |-> Response(RespOK)]

handleHSet(d, t, cmd) ==
    IF Len(cmd.Args) < minHashFields
    THEN [data |-> d, ret |-> ErrorResponse(<<"HSET requires field and value">>)]
    ELSE [data |-> HSet(d, t, cmd.Key, cmd.Args[1], cmd.Args[2]).data,
          ret |-> Response(RespOK)]

handleHDel(d, t, cmd) ==
    IF Len(cmd.Args) = 0
    THEN [data |-> d, ret |-> ErrorResponse(<<"HDEL requires a field">>)]
    ELSE LET r == HDel(d, t, cmd.Key, cmd.Args[1])
         IN  [data |-> r.data, ret |-> IntResponse(BoolInt(r.ret))]

handleHExists(d, t, cmd) ==
    IF Len(cmd.Args) = 0
    THEN [data |-> d, ret |-> ErrorResponse(<<"HEXISTS requires a field">>)]
    ELSE LET r == HExists(d, t, cmd.Key, cmd.Args[1])
         IN  [data |-> r.data, ret |-> IntResponse(BoolInt(r.ret))]

\* for k, v := range hash { result = append(result, k, v) }, the map being
\* iterated in the order given.
RECURSIVE FieldsAndValues(_, _, _)
FieldsAndValues(hash, order, i) ==
    IF i > Len(order) THEN <<>>
    ELSE <<order[i], hash[order[i]]>> \o FieldsAndValues(hash, order, i + 1)

\* order: the iteration order of the hash that HGetAll returned.
handleHGetAll(d, t, cmd, order) ==
    LET r == HGetAll(d, t, cmd.Key)
    IN  [data |-> r.data, ret |-> ArrayResponse(FieldsAndValues(r.ret, order, 1))]

handleLPush(d, t, cmd) ==
    IF Len(cmd.Args) = 0
    THEN [data |-> d, ret |-> ErrorResponse(<<"LPUSH requires at least one value">>)]
    ELSE LET r == LPush(d, t, cmd.Key, cmd.Args)
         IN  [data |-> r.data, ret |-> IntResponse(r.ret)]

handleRPush(d, t, cmd) ==
    IF Len(cmd.Args) = 0
    THEN [data |-> d, ret |-> ErrorResponse(<<"RPUSH requires at least one value">>)]
    ELSE LET r == RPush(d, t, cmd.Key, cmd.Args)
         IN  [data |-> r.data, ret |-> IntResponse(r.ret)]

handleLPop(d, t, cmd) ==
    LET r == LPop(d, t, cmd.Key)
    IN  IF ~r.ret.ok THEN [data |-> r.data, ret |-> Response(RespNil)]
        ELSE [data |-> r.data, ret |-> StringResponse(r.ret.val)]

handleRPop(d, t, cmd) ==
    LET r == RPop(d, t, cmd.Key)
    IN  IF ~r.ret.ok THEN [data |-> r.data, ret |-> Response(RespNil)]
        ELSE [data |-> r.data, ret |-> StringResponse(r.ret.val)]

handleLLen(d, t, cmd) ==
    LET r == LLen(d, t, cmd.Key)
    IN  [data |-> r.data, ret |-> IntResponse(r.ret)]

handleSAdd(d, t, cmd) ==
    IF Len(cmd.Args) = 0
    THEN [data |-> d, ret |-> ErrorResponse(<<"SADD requires at least one member">>)]
    ELSE LET r == SAdd(d, t, cmd.Key, cmd.Args)
         IN  [data |-> r.data, ret |-> IntResponse(r.ret)]

handleSRem(d, t, cmd) ==
    IF Len(cmd.Args) = 0
    THEN [data |-> d, ret |-> ErrorResponse(<<"SREM requires at least one member">>)]
    ELSE LET r == SRem(d, t, cmd.Key, cmd.Args)
         IN  [data |-> r.data, ret |-> IntResponse(r.ret)]

\* order: the order of the members in the slice that SMembers returned.
handleSMembers(d, t, cmd, order) ==
    LET r == SMembers(d, t, cmd.Key)
    IN  [data |-> r.data, ret |-> ArrayResponse(order)]

handleSIsMember(d, t, cmd) ==
    IF Len(cmd.Args) = 0
    THEN [data |-> d, ret |-> ErrorResponse(<<"SISMEMBER requires a member">>)]
    ELSE LET r == SIsMember(d, t, cmd.Key, cmd.Args[1])
         IN  [data |-> r.data, ret |-> IntResponse(BoolInt(r.ret))]

\* An unknown type answered as PING is.
unknownCommandAnsweredPong(d, cmd) == [data |-> d, ret |-> StringResponse(<<"P", "O", "N", "G">>)]

\* executeCommand with no handler for the type: the error response that
\* names the type as a number.
unknownCommand(d, cmd) ==
    [data |-> d, ret |-> ErrorResponse(<<"unknown command: ", cmd.Type>>)]

\* The dispatcher: the handler of the command's type, or the error response
\* to an unknown type.
executeCommand(d, t, cmd, order) ==
    CASE cmd.Type = CmdGet -> handleGet(d, t, cmd)
      [] cmd.Type = CmdSet -> handleSet(d, t, cmd)
      [] cmd.Type = CmdDel -> handleDel(d, t, cmd)
      [] cmd.Type = CmdExists -> handleExists(d, t, cmd)
      [] cmd.Type = CmdIncr -> handleIncr(d, t, cmd)
      [] cmd.Type = CmdDecr -> handleDecr(d, t, cmd)
      [] cmd.Type = CmdIncrBy -> handleIncrBy(d, t, cmd)
      [] cmd.Type = CmdDecrBy -> handleDecrBy(d, t, cmd)
      [] cmd.Type = CmdExpire -> handleExpire(d, t, cmd)
      [] cmd.Type = CmdTTL -> handleTTL(d, t, cmd)
      [] cmd.Type = CmdPersist -> handlePersist(d, t, cmd)
      [] cmd.Type = CmdHGet -> handleHGet(d, t, cmd)
      [] cmd.Type = CmdHSet -> handleHSet(d, t, cmd)
      [] cmd.Type = CmdHDel -> handleHDel(d, t, cmd)
      [] cmd.Type = CmdHExists -> handleHExists(d, t, cmd)
      [] cmd.Type = CmdHGetAll -> handleHGetAll(d, t, cmd, order)
      [] cmd.Type = CmdLPush -> handleLPush(d, t, cmd)
      [] cmd.Type = CmdRPush -> handleRPush(d, t, cmd)
      [] cmd.Type = CmdLPop -> handleLPop(d, t, cmd)
      [] cmd.Type = CmdRPop -> handleRPop(d, t, cmd)
      [] cmd.Type = CmdLLen -> handleLLen(d, t, cmd)
      [] cmd.Type = CmdSAdd -> handleSAdd(d, t, cmd)
      [] cmd.Type = CmdSRem -> handleSRem(d, t, cmd)
      [] cmd.Type = CmdSMembers -> handleSMembers(d, t, cmd, order)
      [] cmd.Type = CmdSIsMember -> handleSIsMember(d, t, cmd)
      [] cmd.Type = CmdPing -> handlePing(d, t, cmd)
      [] OTHER -> unknownCommand(d, cmd)

\* ------------------------------------------------------------- state machine

VARIABLES
    data,    \* Cache.data: the keys present and their Values
    now,     \* the wall clock, time.Now()
    last,    \* the operation that ran last: its name, arguments, result and
             \* the store it ran on (cleared when the clock advances)
    stored,  \* per key, the value, the time and the ttl of the Set that stored
             \* what the key still holds unwritten ([at |-> 0] when there is
             \* none): a history variable
    mu,      \* Cache.mu: the goroutine holding the write lock ("none" when
             \* free) and the goroutines holding the read lock
    pc,      \* per goroutine, where it is in its call of a store operation
    req,     \* per goroutine, the store operation it is calling
    snap,    \* per goroutine, the store as its operation read it
    out,     \* per goroutine, what its last operation returned
    serial,  \* the store had every operation run alone, in the order in which
             \* the operations took the lock: a history variable
    expect,  \* per goroutine, what its operation returns in that order
    tally,   \* the value of the counter before the calls, the sum of the
             \* deltas of the IncrBy calls that took the lock, their number,
             \* the number of calls made, and whether IncrBy alone was called:
             \* a history variable
    ring,    \* Client.ring: the consistent hash ring (nodes, ring, sortedHashes)
    cmu,     \* Client.mu: "none", or the membership change holding the lock
    admin,   \* the goroutine changing the membership: where it is in AddNode
             \* or RemoveNode, the address, and the changes it made
    pools,   \* Client.pools: the pool of each address that has one
    poolObj, \* the ConnectionPools ever made: address, the connections
             \* channel, whether it is closed, and the created counter
    conn,    \* the connections ever dialed: the address, the pool that handed
             \* it out last, whether it is in use, idle in a pool or closed,
             \* and whether the last exchange on it succeeded
    call,    \* per calling goroutine, where it is in executeCommand and its
             \* local variables
    wire     \* what is on the network: the message of the codec, its bytes
             \* and what was decoded; a stream of frames; a connection; the
             \* listener and its peers; the last change of a ring; the nodes
             \* that cannot be reached

\* The store and the history of its use.
storeVars == <<data, now, last, stored>>

\* The goroutines calling the store concurrently.
threadVars == <<mu, pc, req, snap, out, serial, expect, tally>>

\* The client: ring, pools, connections and the goroutines that use them.
clientVars == <<ring, cmu, admin, pools, poolObj, conn, call>>

\* The codec.
wireVars == <<wire>>

\* What the store's own steps leave alone.
beside == <<threadVars, clientVars, wireVars>>

vars == <<storeVars, threadVars, clientVars, wireVars>>

Keys == {"k1", "k2"}

\* Sequences of 1..n elements of elems: the values of a push, the members of
\* an SAdd or SRem.
ArgSeqs(elems, n) == UNION {[1..m -> elems] : m \in 1..n}

\* The inputs the operations are called with.  Each specification draws them
\* from one of these records: keys, the values given to Set, the ttl
\* durations (in ticks), the deltas of IncrBy, the hash fields, the hash
\* values / list elements / set members, and the longest argument list.

\* Every operation on k1, with one or two values of each type.
AllTypes ==
    [keys |-> {"k1"}, vals |-> {<<"1">>, <<"a">>}, ttls |-> {0, 1}, deltas |-> {0},
     fields |-> {"f"}, elems |-> {<<"a">>}, nargs |-> 1]

\* What is done to k2 beside the operations on k1: a string with or without
\* expiration and a list are stored there and deleted.
Others ==
    [keys |-> {"k2"}, vals |-> {<<"b">>}, ttls |-> {0, 1}, deltas |-> {0},
     fields |-> {"g"}, elems |-> {<<"b">>}, nargs |-> 1]

\* Counters on k1: canonical and non-canonical decimal integers, a number
\* out of the int64 range, non-numbers and the empty string.
Counters ==
    [keys |-> {"k1"},
     vals |-> {<<"1">>, <<"+", "1">>, <<"0", "2">>, <<"-", "0">>, <<"9", "9">>,
               <<"a">>, <<"1", "a">>, <<"-">>, <<>>},
     ttls |-> {0, 1}, deltas |-> MinInt64..MaxInt64,
     fields |-> {"f"}, elems |-> {<<"a">>}, nargs |-> 1]

\* Lists on k1.
Lists ==
    [keys |-> {"k1"}, vals |-> {<<"a">>}, ttls |-> {0, 1}, deltas |-> {0},
     fields |-> {"f"}, elems |-> {<<"a">>, <<"b">>}, nargs |-> MaxListLen]

\* Sets on k1, with members given twice in one call.
Sets ==
    [keys |-> {"k1"}, vals |-> {<<"a">>}, ttls |-> {0, 1}, deltas |-> {0},
     fields |-> {"f"}, elems |-> {<<"a">>, <<"b">>}, nargs |-> MaxArgs]

\* Expiration of strings on k1.
Expiring ==
    [keys |-> {"k1"}, vals |-> {<<"a">>}, ttls |-> {-1, 0, 1, Second, Second + 1},
     deltas |-> {0}, fields |-> {"f"}, elems |-> {<<"a">>}, nargs |-> 1]

EmptyStore == [k \in {} |-> NewValue(TypeString)]
NoStamp == [at |-> 0, ttl |-> 0, val |-> <<>>]
NoOp == [op |-> "none", key |-> "", args |-> <<>>, ret |-> FALSE, pre |-> EmptyStore]

\* The goroutines that call the store concurrently: one per connection.
Conns == {"c1", "c2", "c3"}

NoRequest == [op |-> "none", key |-> "", delta |-> 0, val |-> <<>>]
NoResult == [op |-> "none", ret |-> FALSE]

\* No goroutine is in a call of the store d, and the lock is free.
ThreadsIdle(d) ==
    /\ mu = [writer |-> "none", readers |-> {}]
    /\ pc = [c \in Conns |-> "idle"]
    /\ req = [c \in Conns |-> NoRequest]
    /\ snap = [c \in Conns |-> EmptyStore]
    /\ out = [c \in Conns |-> NoResult]
    /\ serial = d
    /\ expect = [c \in Conns |-> NoResult]
    /\ tally = [initial |-> IF "k1" \in DOMAIN d THEN ParseInt(d["k1"].Str).val ELSE 0,
                sum |-> 0, n |-> 0, calls |-> 0, pure |-> TRUE]

\* The goroutines that call the client.
Callers == {"g1", "g2"}

NoCall ==
    [pc |-> "idle", key |-> "", attempt |-> 0, lastErr |-> "", node |-> "",
     pool |-> 0, conn |-> 0, outcome |-> "", result |-> "", tries |-> 0,
     errs |-> <<>>, calls |-> 0]

\* hash.New: the empty ring.
EmptyRing == [nodes |-> {}, ring |-> <<>>, sortedHashes |-> <<>>]

\* No client was made.
NoClient ==
    /\ ring = EmptyRing
    /\ cmu = "none"
    /\ admin = [pc |-> "idle", address |-> "", changes |-> 0]
    /\ pools = <<>>
    /\ poolObj = <<>>
    /\ conn = <<>>
    /\ call = [g \in Callers |-> NoCall]

\* The codec is not at work.
NoWire == wire = [at |-> "none"]

Init ==
    /\ data = EmptyStore
    /\ now = 1
    /\ last = NoOp
    /\ stored = [k \in Keys |-> NoStamp]
    /\ ThreadsIdle(EmptyStore)
    /\ NoClient
    /\ NoWire

\* Whether the entry of key differs between the stores d1 and d2.
Changed(d1, d2, key) ==
    \/ (key \in DOMAIN d1) # (key \in DOMAIN d2)
    \/ key \in DOMAIN d1 /\ key \in DOMAIN d2 /\ d1[key] # d2[key]

\* One call of a store operation, under the store's lock: the store becomes
\* res.data and res.ret is returned.
Step(op, key, args, res) ==
    /\ data' = res.data
    /\ last' = [op |-> op, key |-> key, args |-> args, ret |-> res.ret, pre |-> data]
    /\ stored' = [stored EXCEPT ![key] =
                    IF op = "Set" THEN [at |-> now, ttl |-> args.ttl, val |-> args.val]
                    ELSE IF Changed(data, res.data, key) THEN NoStamp ELSE @]
    /\ UNCHANGED <<now, beside>>

CallGet(P) == \E key \in P.keys : Step("Get", key, <<>>, Get(data, now, key))

CallSet(P) ==
    \E key \in P.keys, val \in P.vals, ttl \in P.ttls :
        Step("Set", key, [val |-> val, ttl |-> ttl], Set(data, now, key, val, ttl))

CallDel(P) == \E key \in P.keys : Step("Del", key, <<>>, Del(data, now, key))

CallExists(P) == \E key \in P.keys : Step("Exists", key, <<>>, Exists(data, now, key))

CallIncr(P) == \E key \in P.keys : Step("Incr", key, <<>>, Incr(data, now, key))

CallDecr(P) == \E key \in P.keys : Step("Decr", key, <<>>, Decr(data, now, key))

CallIncrBy(P) ==
    \E key \in P.keys, delta \in P.deltas :
        Step("IncrBy", key, [delta |-> delta], IncrBy(data, now, key, delta))

CallExpire(P) ==
    \E key \in P.keys, ttl \in P.ttls :
        Step("Expire", key, [ttl |-> ttl], Expire(data, now, key, ttl))

CallTTL(P) == \E key \in P.keys : Step("TTL", key, <<>>, TTL(data, now, key))

CallPersist(P) == \E key \in P.keys : Step("Persist", key, <<>>, Persist(data, now, key))

CallHGet(P) ==
    \E key \in P.keys, field \in P.fields :
        Step("HGet", key, [field |-> field], HGet(data, now, key, field))

CallHSet(P) ==
    \E key \in P.keys, field \in P.fields, val \in P.elems :
        Step("HSet", key, [field |-> field, val |-> val],
             HSet(data, now, key, field, val))

CallHDel(P) ==
    \E key \in P.keys, field \in P.fields :
        Step("HDel", key, [field |-> field], HDel(data, now, key, field))

CallHExists(P) ==
    \E key \in P.keys, field \in P.fields :
        Step("HExists", key, [field |-> field], HExists(data, now, key, field))

CallHGetAll(P) == \E key \in P.keys : Step("HGetAll", key, <<>>, HGetAll(data, now, key))

CallLPush(P) ==
    \E key \in P.keys, values \in ArgSeqs(P.elems, P.nargs) :
        LET res == LPush(data, now, key, values)
        IN  /\ res.ret <= MaxListLen
            /\ Step("LPush", key, [values |-> values], res)

CallRPush(P) ==
    \E key \in P.keys, values \in ArgSeqs(P.elems, P.nargs) :
        LET res == RPush(data, now, key, values)
        IN  /\ res.ret <= MaxListLen
            /\ Step("RPush", key, [values |-> values], res)

CallLPop(P) == \E key \in P.keys : Step("LPop", key, <<>>, LPop(data, now, key))

CallRPop(P) == \E key \in P.keys : Step("RPop", key, <<>>, RPop(data, now, key))

CallLLen(P) == \E key \in P.keys : Step("LLen", key, <<>>, LLen(data, now, key))

CallSAdd(P) ==
    \E key \in P.keys, members \in ArgSeqs(P.elems, P.nargs) :
        Step("SAdd", key, [members |-> members], SAdd(data, now, key, members))

CallSRem(P) ==
    \E key \in P.keys, members \in ArgSeqs(P.elems, P.nargs) :
        Step("SRem", key, [members |-> members], SRem(data, now, key, members))

CallSMembers(P) ==
    \E key \in P.keys : Step("SMembers", key, <<>>, SMembers(data, now, key))

CallSIsMember(P) ==
    \E key \in P.keys, member \in P.elems :
        Step("SIsMember", key, [member |-> member], SIsMember(data, now, key, member))

\* One pass of the reaper, under the store's lock.
cleanupExpired ==
    /\ data' = ReapPass(data, now)
    /\ last' = [op |-> "cleanupExpired", key |-> "", args |-> <<>>, ret |-> FALSE,
                pre |-> data]
    /\ UNCHANGED <<now, stored, beside>>

\* The clock advances.
Tick ==
    /\ now < MaxTime
    /\ now' = now + 1
    /\ last' = NoOp
    /\ UNCHANGED <<data, stored, beside>>

\* What every specification does to k2.
OtherKey == CallSet(Others) \/ CallRPush(Others) \/ CallDel(Others)

\* The store with every operation, on values of every type.
Next ==
    \/ CallGet(AllTypes) \/ CallSet(AllTypes) \/ CallDel(AllTypes)
    \/ CallExists(AllTypes) \/ CallIncrBy(AllTypes)
    \/ CallExpire(AllTypes) \/ CallTTL(AllTypes) \/ CallPersist(AllTypes)
    \/ CallHGet(AllTypes) \/ CallHSet(AllTypes) \/ CallHDel(AllTypes)
    \/ CallHExists(AllTypes) \/ CallHGetAll(AllTypes)
    \/ CallLPush(AllTypes) \/ CallRPush(AllTypes) \/ CallLPop(AllTypes)
    \/ CallRPop(AllTypes) \/ CallLLen(AllTypes)
    \/ CallSAdd(AllTypes) \/ CallSRem(AllTypes) \/ CallSMembers(AllTypes)
    \/ CallSIsMember(AllTypes)
    \/ OtherKey \/ cleanupExpired \/ Tick

Spec == Init /\ [][Next]_vars

\* The store as a counter.
NextCounters ==
    \/ CallGet(Counters) \/ CallSet(Counters) \/ CallDel(Counters)
    \/ CallIncr(Counters) \/ CallDecr(Counters) \/ CallIncrBy(Counters)
    \/ CallRPush(Counters)
    \/ OtherKey \/ cleanupExpired \/ Tick

SpecCounters == Init /\ [][NextCounters]_vars

\* The store as lists.
NextLists ==
    \/ CallLPush(Lists) \/ CallRPush(Lists) \/ CallLPop(Lists) \/ CallRPop(Lists)
    \/ CallLLen(Lists) \/ CallSet(Lists) \/ CallDel(Lists)
    \/ OtherKey \/ cleanupExpired \/ Tick

SpecLists == Init /\ [][NextLists]_vars

\* The store as sets.
NextSets ==
    \/ CallSAdd(Sets) \/ CallSRem(Sets) \/ CallSMembers(Sets) \/ CallSIsMember(Sets)
    \/ CallSet(Sets) \/ CallDel(Sets) \/ CallExpire(Sets)
    \/ OtherKey \/ cleanupExpired \/ Tick

SpecSets == Init /\ [][NextSets]_vars

\* Strings that expire.
NextExpiring ==
    \/ CallGet(Expiring) \/ CallSet(Expiring) \/ CallDel(Expiring)
    \/ CallExists(Expiring) \/ CallExpire(Expiring) \/ CallTTL(Expiring)
    \/ CallPersist(Expiring) \/ CallIncrBy(Expiring)
    \/ OtherKey \/ cleanupExpired \/ Tick

SpecExpiring == Init /\ [][NextExpiring]_vars

\* ------------------------------------------------------ server state machine

\* The commands the server is sent.  Each server specification draws them
\* from one of these records: keys, the values of SET, the TTLs (whole
\* seconds, as the wire carries them), the delta arguments of INCRBY and
\* DECRBY, the hash fields, the hash values / list elements / set members,
\* and the longest argument list.

\* Every command on k1, with one or two values of each type.
Commands ==
    [keys |-> {"k1"}, vals |-> {<<"1">>, <<"a">>}, ttls |-> {0, Second},
     deltas |-> {<<"1">>, <<"x">>}, fields |-> {"f"}, elems |-> {<<"a">>}, nargs |-> 1]

\* What is sent for k2 beside the commands on k1.
OtherCommands ==
    [keys |-> {"k2"}, vals |-> {<<"b">>}, ttls |-> {0},
     deltas |-> {<<"1">>}, fields |-> {"g"}, elems |-> {<<"b">>}, nargs |-> 1]

\* Counter commands on k1: integers and non-integers stored, and deltas that
\* are integers (zero, positive, negative, the least and the greatest
\* int64), out of the int64 range, or no numbers.
CounterCommands ==
    [keys |-> {"k1"},
     vals |-> {<<"1">>, <<"0", "2">>, <<"9", "9">>, <<"a">>, <<"1", "a">>, <<>>},
     ttls |-> {0, Second},
     deltas |-> {<<"0">>, <<"1">>, <<"2">>, <<"-", "1">>, FormatInt(MinInt64),
                 FormatInt(MaxInt64), <<"9", "9">>, <<"x">>, <<>>},
     fields |-> {"f"}, elems |-> {<<"a">>}, nargs |-> 1]

\* Command types that are no command.
UnknownTypes == {CmdPing + 1, 255}

\* handleConnection, once around its loop: the command of the given type,
\* key, arguments and TTL is read and executed, its handler running one store
\* operation under the store's lock, and the response is written.
Serve(type, key, args, ttl, order) ==
    LET cmd == Command(type, key, args, ttl)
        res == executeCommand(data, now, cmd, order)
    IN  /\ data' = res.data
        /\ last' = [op |-> "command", key |-> cmd.Key, args |-> cmd,
                    ret |-> res.ret, pre |-> data]
        /\ stored' = [stored EXCEPT ![cmd.Key] =
                        IF cmd.Type = CmdSet /\ Len(cmd.Args) > 0
                        THEN [at |-> now, ttl |-> cmd.TTL, val |-> cmd.Args[1]]
                        ELSE IF Changed(data, res.data, cmd.Key) THEN NoStamp ELSE @]
        /\ UNCHANGED <<now, beside>>

\* No argument, or one of xs.
OneOrNone(xs) == {<<>>} \cup {<<x>> : x \in xs}

ServePing(P) == \E key \in P.keys : Serve(CmdPing, key, <<>>, 0, <<>>)

ServeGet(P) == \E key \in P.keys : Serve(CmdGet, key, <<>>, 0, <<>>)

ServeSet(P) ==
    \E key \in P.keys, args \in OneOrNone(P.vals), ttl \in P.ttls :
        Serve(CmdSet, key, args, ttl, <<>>)

ServeDel(P) == \E key \in P.keys : Serve(CmdDel, key, <<>>, 0, <<>>)

ServeExists(P) == \E key \in P.keys : Serve(CmdExists, key, <<>>, 0, <<>>)

ServeIncr(P) == \E key \in P.keys : Serve(CmdIncr, key, <<>>, 0, <<>>)

ServeDecr(P) == \E key \in P.keys : Serve(CmdDecr, key, <<>>, 0, <<>>)

ServeIncrBy(P) ==
    \E key \in P.keys, args \in OneOrNone(P.deltas) :
        Serve(CmdIncrBy, key, args, 0, <<>>)

ServeDecrBy(P) ==
    \E key \in P.keys, args \in OneOrNone(P.deltas) :
        Serve(CmdDecrBy, key, args, 0, <<>>)

ServeExpire(P) ==
    \E key \in P.keys, ttl \in P.ttls : Serve(CmdExpire, key, <<>>, ttl, <<>>)

ServeTTL(P) == \E key \in P.keys : Serve(CmdTTL, key, <<>>, 0, <<>>)

ServePersist(P) == \E key \in P.keys : Serve(CmdPersist, key, <<>>, 0, <<>>)

ServeHGet(P) ==
    \E key \in P.keys, args \in OneOrNone(P.fields) :
        Serve(CmdHGet, key, args, 0, <<>>)

ServeHSet(P) ==
    \E key \in P.keys, field \in P.fields, val \in P.elems :
        \E args \in {<<>>, <<field>>, <<field, val>>} :
            Serve(CmdHSet, key, args, 0, <<>>)

ServeHDel(P) ==
    \E key \in P.keys, args \in OneOrNone(P.fields) :
        Serve(CmdHDel, key, args, 0, <<>>)

ServeHExists(P) ==
    \E key \in P.keys, args \in OneOrNone(P.fields) :
        Serve(CmdHExists, key, args, 0, <<>>)

ServeHGetAll(P) ==
    \E key \in P.keys :
        \E order \in Orders(DOMAIN HGetAll(data, now, key).ret) :
            Serve(CmdHGetAll, key, <<>>, 0, order)

ServeLPush(P) ==
    \E key \in P.keys, args \in {<<>>} \cup ArgSeqs(P.elems, P.nargs) :
        /\ LPush(data, now, key, args).ret <= MaxListLen
        /\ Serve(CmdLPush, key, args, 0, <<>>)

ServeRPush(P) ==
    \E key \in P.keys, args \in {<<>>} \cup ArgSeqs(P.elems, P.nargs) :
        /\ RPush(data, now, key, args).ret <= MaxListLen
        /\ Serve(CmdRPush, key, args, 0, <<>>)

ServeLPop(P) == \E key \in P.keys : Serve(CmdLPop, key, <<>>, 0, <<>>)

ServeRPop(P) == \E key \in P.keys : Serve(CmdRPop, key, <<>>, 0, <<>>)

ServeLLen(P) == \E key \in P.keys : Serve(CmdLLen, key, <<>>, 0, <<>>)

ServeSAdd(P) ==
    \E key \in P.keys, args \in {<<>>} \cup ArgSeqs(P.elems, P.nargs) :
        Serve(CmdSAdd, key, args, 0, <<>>)

ServeSRem(P) ==
    \E key \in P.keys, args \in {<<>>} \cup ArgSeqs(P.elems, P.nargs) :
        Serve(CmdSRem, key, args, 0, <<>>)

ServeSMembers(P) ==
    \E key \in P.keys :
        \E order \in Orders(SMembers(data, now, key).ret) :
            Serve(CmdSMembers, key, <<>>, 0, order)

ServeSIsMember(P) ==
    \E key \in P.keys, args \in OneOrNone(P.elems) :
        Serve(CmdSIsMember, key, args, 0, <<>>)

ServeUnknown(P) ==
    \E key \in P.keys, type \in UnknownTypes : Serve(type, key, <<>>, 0, <<>>)

\* What the server as a counter is sent for k2.
OtherKeyCommands ==
    ServeSet(OtherCommands) \/ ServeRPush(OtherCommands) \/ ServeDel(OtherCommands)

\* The server with every command, on values of every type; for k2 a string
\* is stored and deleted.
NextServer ==
    \/ ServePing(Commands) \/ ServeGet(Commands) \/ ServeSet(Commands)
    \/ ServeDel(Commands) \/ ServeExists(Commands)
    \/ ServeIncr(Commands) \/ ServeDecr(Commands)
    \/ ServeIncrBy(Commands) \/ ServeDecrBy(Commands)
    \/ ServeExpire(Commands) \/ ServeTTL(Commands) \/ ServePersist(Commands)
    \/ ServeHGet(Commands) \/ ServeHSet(Commands) \/ ServeHDel(Commands)
    \/ ServeHExists(Commands) \/ ServeHGetAll(Commands)
    \/ ServeLPush(Commands) \/ ServeRPush(Commands) \/ ServeLPop(Commands)
    \/ ServeRPop(Commands) \/ ServeLLen(Commands)
    \/ ServeSAdd(Commands) \/ ServeSRem(Commands) \/ ServeSMembers(Commands)
    \/ ServeSIsMember(Commands) \/ ServeUnknown(Commands)
    \/ ServeSet(OtherCommands) \/ ServeDel(OtherCommands)
    \/ cleanupExpired \/ Tick

SpecServer == Init /\ [][NextServer]_vars

\* The server as a counter.
NextServerCounters ==
    \/ ServeGet(CounterCommands) \/ ServeSet(CounterCommands) \/ ServeDel(CounterCommands)
    \/ ServeIncr(CounterCommands) \/ ServeDecr(CounterCommands)
    \/ ServeIncrBy(CounterCommands) \/ ServeDecrBy(CounterCommands)
    \/ ServeRPush(CounterCommands)
    \/ OtherKeyCommands \/ cleanupExpired \/ Tick

SpecServerCounters == Init /\ [][NextServerCounters]_vars

\* -------------------------------------------------- concurrent store calls

\* The operations the goroutines call, all on the counter key.
ThreadOps ==
    {[op |-> "IncrBy", key |-> "k1", delta |-> d, val |-> <<>>] : d \in {1, 2}}
    \cup {[op |-> "Get", key |-> "k1", delta |-> 0, val |-> <<>>],
          [op |-> "Set", key |-> "k1", delta |-> 0, val |-> <<"a">>],
          [op |-> "Del", key |-> "k1", delta |-> 0, val |-> <<>>]}

\* The operation r, run on the store d at t.
Apply(d, t, r) ==
    CASE r.op = "IncrBy" -> IncrBy(d, t, r.key, r.delta)
      [] r.op = "Get" -> Get(d, t, r.key)
      [] r.op = "Set" -> Set(d, t, r.key, r.val, 0)
      [] r.op = "Del" -> Del(d, t, r.key)

\* IncrBy taking the read lock, as Get does.
WriteLockedButIncrBy(r) == r.op \in {"Set", "Del"}

\* Whether the operation takes c.mu.Lock(); the others take c.mu.RLock().
WriteLocked(r) == r.op \in {"IncrBy", "Set", "Del"}

\* The goroutine c calls a store operation.
Invoke(c) ==
    /\ pc[c] = "idle"
    /\ tally.calls < MaxCalls
    /\ \E r \in ThreadOps :
         /\ req' = [req EXCEPT ![c] = r]
         /\ tally' = [tally EXCEPT !.calls = @ + 1,
                                   !.pure = @ /\ r.op = "IncrBy"]
    /\ pc' = [pc EXCEPT ![c] = "called"]
    /\ out' = [out EXCEPT ![c] = NoResult]
    /\ UNCHANGED <<storeVars, mu, snap, serial, expect, clientVars, wireVars>>

\* The operation of c takes its place in the order of the lock.
Ordered(c) ==
    LET r == Apply(serial, now, req[c])
    IN  /\ serial' = r.data
        /\ expect' = [expect EXCEPT ![c] = [op |-> req[c].op, ret |-> r.ret]]
        /\ tally' = IF req[c].op = "IncrBy"
                    THEN [tally EXCEPT !.sum = @ + req[c].delta, !.n = @ + 1]
                    ELSE tally

\* c.mu.Lock(): no goroutine holds the lock.
Lock(c) ==
    /\ pc[c] = "called"
    /\ WriteLocked(req[c])
    /\ mu.writer = "none" /\ mu.readers = {}
    /\ mu' = [mu EXCEPT !.writer = c]
    /\ pc' = [pc EXCEPT ![c] = "locked"]
    /\ Ordered(c)
    /\ UNCHANGED <<storeVars, req, snap, out, clientVars, wireVars>>

\* c.mu.RLock(): no goroutine holds the write lock.
RLock(c) ==
    /\ pc[c] = "called"
    /\ ~WriteLocked(req[c])
    /\ mu.writer = "none"
    /\ mu' = [mu EXCEPT !.readers = @ \cup {c}]
    /\ pc' = [pc EXCEPT ![c] = "locked"]
    /\ Ordered(c)
    /\ UNCHANGED <<storeVars, req, snap, out, clientVars, wireVars>>

\* value, exists := c.data[key]: the operation reads the store.
Load(c) ==
    /\ pc[c] = "locked"
    /\ snap' = [snap EXCEPT ![c] = data]
    /\ pc' = [pc EXCEPT ![c] = "loaded"]
    /\ UNCHANGED <<now, last, stored, data, mu, req, out, serial, expect, tally,
                   clientVars, wireVars>>

\* The operation writes what it computed from what it read, if it writes
\* (c.data[key] = value, value.Data = ..., delete(c.data, key)), and has its
\* result.
Store(c) ==
    /\ pc[c] = "loaded"
    /\ LET r == Apply(snap[c], now, req[c])
           key == req[c].key
       IN  /\ data' = IF ~Changed(snap[c], r.data, key) THEN data
                      ELSE IF key \in DOMAIN r.data THEN Put(data, key, r.data[key])
                      ELSE Delete(data, key)
           /\ out' = [out EXCEPT ![c] = [op |-> req[c].op, ret |-> r.ret]]
    /\ pc' = [pc EXCEPT ![c] = "stored"]
    /\ UNCHANGED <<now, last, stored, mu, req, snap, serial, expect, tally,
                   clientVars, wireVars>>

\* defer c.mu.Unlock() / c.mu.RUnlock(): the operation returns.
Unlock(c) ==
    /\ pc[c] = "stored"
    /\ mu' = [writer |-> IF mu.writer = c THEN "none" ELSE mu.writer,
              readers |-> mu.readers \ {c}]
    /\ pc' = [pc EXCEPT ![c] = "idle"]
    /\ UNCHANGED <<storeVars, req, snap, out, serial, expect, tally,
                   clientVars, wireVars>>

\* The counter is absent or holds "1", and no goroutine has called yet.
InitThreads ==
    /\ data \in {EmptyStore,
                 Put(EmptyStore, "k1", [NewValue(TypeString) EXCEPT !.Str = <<"1">>])}
    /\ now = 1
    /\ last = NoOp
    /\ stored = [k \in Keys |-> NoStamp]
    /\ ThreadsIdle(data)
    /\ NoClient
    /\ NoWire

NextThreads ==
    \E c \in Conns :
        Invoke(c) \/ Lock(c) \/ RLock(c) \/ Load(c) \/ Store(c) \/ Unlock(c)

SpecThreads == InitThreads /\ [][NextThreads]_vars

\* ------------------------------------------------------- the reaper at work

\* The goroutines that call the store while the reaper runs.
ReaperConns == {"c1", "c2"}

\* The entry of key as a visit of the reaper's loop would leave it if the
\* loop deleted from the instant of the expiration on.
ReapEntryAtInstant(d, t, key) ==
    IF d[key].ExpiresAt # ZeroTime /\ t >= d[key].ExpiresAt THEN Delete(d, key) ELSE d

\* One visit of the loop of cleanupExpired: the entry is deleted if its
\* expiration is set and now.After(value.ExpiresAt).
ReapEntry(d, t, key) ==
    IF d[key].ExpiresAt # ZeroTime /\ t > d[key].ExpiresAt THEN Delete(d, key) ELSE d

\* The stores the reaper starts on: k1 absent or a string, without
\* expiration or expiring at 2, and k2 absent, a list expiring at 2 or a set
\* expiring at 3.
ReaperStores ==
    LET first == {[NewValue(TypeString) EXCEPT !.Str = <<"1">>, !.ExpiresAt = e] :
                     e \in {ZeroTime, 2}}
        second == {[NewValue(TypeList) EXCEPT !.List = <<<<"a">>>>, !.ExpiresAt = 2],
                   [NewValue(TypeSet) EXCEPT !.Set = {<<"a">>}, !.ExpiresAt = 3]}
    IN  {EmptyStore}
            \cup {Put(EmptyStore, "k1", v) : v \in first}
            \cup {Put(EmptyStore, "k2", w) : w \in second}
            \cup {Put(Put(EmptyStore, "k1", v), "k2", w) : v \in first, w \in second}

\* The operations the goroutines call while the reaper runs.
ReaperOps == {r \in ThreadOps : r.op \in {"Get", "Set"}}

\* The store with the goroutine of cleanupExpired.  The record of wire holds
\* where that goroutine is (pc), the passes it made, and of the pass it is
\* in the time it read (now), the keys its loop has still to visit (left)
\* and the store as it was when the pass began (pre).
InitReaper ==
    /\ data \in ReaperStores
    /\ now = 1
    /\ last = NoOp
    /\ stored = [k \in Keys |-> NoStamp]
    /\ ThreadsIdle(EmptyStore)
    /\ NoClient
    /\ wire = [at |-> "reaper", pc |-> "waiting", passes |-> 0, now |-> 0,
               left |-> {}, pre |-> EmptyStore]

\* The ticker fires and c.mu.Lock() is taken: no goroutine holds the lock.
ReaperLock ==
    /\ wire.at = "reaper" /\ wire.pc = "waiting" /\ wire.passes < MaxPasses
    /\ mu.writer = "none" /\ mu.readers = {}
    /\ mu' = [mu EXCEPT !.writer = "reaper"]
    /\ wire' = [wire EXCEPT !.pc = "locked"]
    /\ UNCHANGED <<storeVars, pc, req, snap, out, serial, expect, tally, clientVars>>

\* now := time.Now(), and the loop over c.data begins.
ReaperNow ==
    /\ wire.at = "reaper" /\ wire.pc = "locked"
    /\ wire' = [wire EXCEPT !.pc = "ranging", !.now = now, !.left = DOMAIN data,
                            !.pre = data]
    /\ UNCHANGED <<storeVars, threadVars, clientVars>>

\* The loop visits an entry, in the order of the map.
ReaperVisit ==
    /\ wire.at = "reaper" /\ wire.pc = "ranging"
    /\ \E key \in wire.left :
         /\ data' = ReapEntry(data, wire.now, key)
         /\ wire' = [wire EXCEPT !.left = @ \ {key}]
    /\ UNCHANGED <<now, last, stored, threadVars, clientVars>>

\* c.mu.Unlock() after the loop, and the wait for the next tick.
ReaperUnlock ==
    /\ wire.at = "reaper" /\ wire.pc = "ranging" /\ wire.left = {}
    /\ mu' = [mu EXCEPT !.writer = "none"]
    /\ wire' = [wire EXCEPT !.pc = "waiting", !.passes = @ + 1]
    /\ UNCHANGED <<storeVars, pc, req, snap, out, serial, expect, tally, clientVars>>

\* The goroutine c calls Get or Set.
ReaperCall(c) ==
    /\ pc[c] = "idle"
    /\ tally.calls < MaxReaperCalls
    /\ \E r \in ReaperOps : req' = [req EXCEPT ![c] = r]
    /\ tally' = [tally EXCEPT !.calls = @ + 1, !.pure = FALSE]
    /\ pc' = [pc EXCEPT ![c] = "called"]
    /\ out' = [out EXCEPT ![c] = NoResult]
    /\ UNCHANGED <<storeVars, mu, snap, serial, expect, clientVars, wireVars>>

NextReaper ==
    \/ ReaperLock \/ ReaperNow \/ ReaperVisit \/ ReaperUnlock \/ Tick
    \/ \E c \in ReaperConns :
          ReaperCall(c) \/ Lock(c) \/ RLock(c) \/ Load(c) \/ Store(c) \/ Unlock(c)

SpecReaper == InitReaper /\ [][NextReaper]_vars

\* ---------------------------------------------------------------- hash ring

\* The elements of the sequence s.
Range(s) == {s[i] : i \in 1..Len(s)}

\* The server addresses.
Nodes == {"A", "B"}

\* The hashes are uint32, scaled to HashBits bits.
HashSpace == Pow2(HashBits)

\* The hashes of the cache keys; every other key hashes to 7.
KeyHashes == [k1 |-> 2, k2 |-> 7, k3 |-> 0, k4 |-> 5, k5 |-> 9, k6 |-> 12, k7 |-> 6]

\* The hash of the virtual node 0 of a node: the virtual nodes of A and B
\* collide with no other of the two, one virtual node of C collides with one
\* of A, and every virtual node of D collides with one of A.
NodeHashes == [A |-> 1, B |-> 3, C |-> 6, D |-> 1]

\* hashKey: the first four bytes of the SHA-256 of the key.  The key is a
\* sequence of pieces: <<k>> for a cache key, <<node, ":", i>> for the i-th
\* virtual node of a node.  SHA-256 is any fixed function; this one gives
\* hashes that differ and hashes that collide.
hashKey(s) ==
    IF Len(s) = 1
    THEN (IF s[1] \in DOMAIN KeyHashes THEN KeyHashes[s[1]] ELSE 7) % HashSpace
    ELSE (NodeHashes[s[1]] + 5 * s[3]) % HashSpace

\* The hashes of the virtual nodes of node, in the order of the loop.
VirtualHashes(node) == [i \in 1..VirtualNodes |-> hashKey(<<node, ":", i - 1>>)]

RingAddNode(r, node) ==
    IF node \in r.nodes THEN r
    ELSE LET hashes == VirtualHashes(node)
         IN  [nodes |-> r.nodes \cup {node},
              ring |-> [h \in (DOMAIN r.ring) \cup Range(hashes) |->
                          IF h \in Range(hashes) THEN node ELSE r.ring[h]],
              sortedHashes |-> SortSeq(r.sortedHashes \o hashes, <)]

RingRemoveNode(r, node) ==
    IF node \notin r.nodes THEN r
    ELSE LET left == [h \in (DOMAIN r.ring) \ Range(VirtualHashes(node)) |-> r.ring[h]]
             Exists_(h) == h \in DOMAIN left
         IN  [nodes |-> r.nodes \ {node},
              ring |-> left,
              sortedHashes |-> SelectSeq(r.sortedHashes, Exists_)]

\* sort.Search for the first hash >= hash, wrapping to the first one; the
\* index is 1-based.
search(sortedHashes, hash) ==
    LET at == {i \in 1..Len(sortedHashes) : sortedHashes[i] >= hash}
    IN  IF at = {} THEN 1 ELSE CHOOSE i \in at : \A j \in at : i <= j

\* GetNode that takes the position of the hash modulo their number.
RingGetNodeModulo(r, key) ==
    IF DOMAIN r.ring = {} THEN ""
    ELSE r.ring[r.sortedHashes[(hashKey(<<key>>) % Len(r.sortedHashes)) + 1]]

RingGetNode(r, key) ==
    IF DOMAIN r.ring = {} THEN ""
    ELSE r.ring[r.sortedHashes[search(r.sortedHashes, hashKey(<<key>>))]]

\* GetNodes: the members.
RingGetNodes(r) == r.nodes

\* --------------------------------------------------------- the ring at work

\* The servers that join and leave, and the keys that are looked up.
RingNodes == DOMAIN NodeHashes
RingKeys == DOMAIN KeyHashes

notRing == <<storeVars, threadVars, cmu, admin, pools, poolObj, conn, call>>

\* hash.New: no member.  wire remembers the last change: the operation, its
\* node and the ring before it.
InitRing ==
    /\ data = EmptyStore
    /\ now = 1
    /\ last = NoOp
    /\ stored = [k \in Keys |-> NoStamp]
    /\ ThreadsIdle(EmptyStore)
    /\ NoClient
    /\ wire = [at |-> "ring", op |-> "none", node |-> "", pre |-> EmptyRing]

RingAdd ==
    /\ \E node \in RingNodes :
         /\ ring' = RingAddNode(ring, node)
         /\ wire' = [at |-> "ring", op |-> "AddNode", node |-> node, pre |-> ring]
    /\ UNCHANGED notRing

RingRemove ==
    /\ \E node \in RingNodes :
         /\ ring' = RingRemoveNode(ring, node)
         /\ wire' = [at |-> "ring", op |-> "RemoveNode", node |-> node, pre |-> ring]
    /\ UNCHANGED notRing

NextRing == RingAdd \/ RingRemove

SpecRing == InitRing /\ [][NextRing]_vars

\* -------------------------------------------------------------------- client

\* The keys of the commands the callers send.
ClientKeys == {"k1"}

\* A goroutine panicked: the process is gone.
Crashed == \E g \in Callers : call[g].pc = "panic"

\* A new ConnectionPool for address.
NewPool(address) ==
    [address |-> address, connections |-> <<>>, closed |-> FALSE, created |-> 0]

\* NewWithConfig: the ring and the pools of the configured nodes.
RECURSIVE RingOf(_)
RingOf(nodes) ==
    IF Len(nodes) = 0 THEN EmptyRing
    ELSE RingAddNode(RingOf(SubSeq(nodes, 1, Len(nodes) - 1)), nodes[Len(nodes)])

InitClient ==
    /\ data = EmptyStore
    /\ now = 1
    /\ last = NoOp
    /\ stored = [k \in Keys |-> NoStamp]
    /\ ThreadsIdle(EmptyStore)
    /\ NoWire
    /\ \E nodes \in {<<"A">>, <<"A", "B">>} :
         /\ ring = RingOf(nodes)
         /\ pools = [n \in Range(nodes) |-> CHOOSE i \in 1..Len(nodes) : nodes[i] = n]
         /\ poolObj = [i \in 1..Len(nodes) |-> NewPool(nodes[i])]
    /\ cmu = "none"
    /\ admin = [pc |-> "idle", address |-> "", changes |-> 0]
    /\ conn = <<>>
    /\ call = [g \in Callers |-> NoCall]

\* What the client's steps leave alone.
outside == <<storeVars, threadVars, wireVars>>

\* A loop that runs one round more.
AttemptsLeftPlusOne(c) == c.attempt <= RetryAttempts + 1

\* for attempt := 0; attempt <= c.config.RetryAttempts; attempt++
AttemptsLeft(c) == c.attempt <= RetryAttempts

\* The attempt of the call c ends with the error err: lastErr = err; continue.
Fail(c, err) ==
    [c EXCEPT !.lastErr = err, !.errs = Append(@, err), !.attempt = @ + 1,
              !.pc = "loop", !.node = "", !.pool = 0, !.conn = 0, !.outcome = ""]

\* returnConnection is over.  After a whole exchange executeCommand returns
\* the response; after a deadline that could not be armed it goes on with
\* lastErr set.
Returned(c) ==
    IF c.outcome = "ok"
    THEN [c EXCEPT !.pc = "idle", !.result = "ok", !.node = "", !.pool = 0,
                   !.conn = 0, !.outcome = ""]
    ELSE Fail(c, c.outcome)

\* conn.Close()
Closed(cs, id) == [cs EXCEPT ![id].state = "closed"]

\* A client method is called: executeCommand starts with attempt 0.
Begin(g) ==
    /\ ~Crashed
    /\ call[g].pc = "idle"
    /\ call[g].calls < MaxClientCalls
    /\ \E key \in ClientKeys :
         call' = [call EXCEPT ![g] =
                    [NoCall EXCEPT !.pc = "loop", !.key = key, !.calls = call[g].calls + 1]]
    /\ UNCHANGED <<ring, cmu, admin, pools, poolObj, conn, outside>>

\* The loop is over: executeCommand returns the error that wraps lastErr.
GiveUp(g) ==
    /\ ~Crashed
    /\ call[g].pc = "loop"
    /\ ~AttemptsLeft(call[g])
    /\ call' = [call EXCEPT ![g].pc = "idle", ![g].result = "error"]
    /\ UNCHANGED <<ring, cmu, admin, pools, poolObj, conn, outside>>

\* An attempt starts; getConnection: node := c.ring.GetNode(key).
Route(g) ==
    /\ ~Crashed
    /\ call[g].pc = "loop"
    /\ AttemptsLeft(call[g])
    /\ LET node == RingGetNode(ring, call[g].key)
           c == [call[g] EXCEPT !.tries = @ + 1]
       IN  call' = [call EXCEPT ![g] =
                      IF node = "" THEN Fail(c, "no available nodes")
                      ELSE [c EXCEPT !.pc = "lookup", !.node = node]]
    /\ UNCHANGED <<ring, cmu, admin, pools, poolObj, conn, outside>>

\* getConnection: pool, exists := c.pools[node], under c.mu.RLock().
Lookup(g) ==
    /\ ~Crashed
    /\ call[g].pc = "lookup"
    /\ cmu = "none"
    /\ call' = [call EXCEPT ![g] =
                  IF call[g].node \in DOMAIN pools
                  THEN [@ EXCEPT !.pc = "get", !.pool = pools[call[g].node]]
                  ELSE Fail(@, "no connection pool for node")]
    /\ UNCHANGED <<ring, cmu, admin, pools, poolObj, conn, outside>>

\* case conn := <-cp.connections: the goroutine g receives from the channel
\* of its pool: the first connection parked there, or nil (0) once the
\* channel is closed and empty.
Receive(g) ==
    LET p == call[g].pool
        ch == poolObj[p].connections
    IN  IF Len(ch) > 0
        THEN /\ poolObj' = [poolObj EXCEPT ![p].connections = Tail(ch)]
             /\ conn' = [conn EXCEPT ![Head(ch)].state = "inuse",
                                     ![Head(ch)].by = p,
                                     ![Head(ch)].good = FALSE]
             /\ call' = [call EXCEPT ![g].pc = "io", ![g].conn = Head(ch)]
        ELSE /\ call' = [call EXCEPT ![g].pc = "io", ![g].conn = 0]
             /\ UNCHANGED <<poolObj, conn>>

\* ConnectionPool.Get, the first select: a parked connection, or by default
\* the created counter is tested and incremented under cp.mu.
PoolGet(g) ==
    /\ ~Crashed
    /\ call[g].pc = "get"
    /\ LET p == call[g].pool
       IN  IF Len(poolObj[p].connections) > 0 \/ poolObj[p].closed
           THEN Receive(g)
           ELSE IF poolObj[p].created < MaxConnsPerNode
           THEN /\ poolObj' = [poolObj EXCEPT ![p].created = @ + 1]
                /\ call' = [call EXCEPT ![g].pc = "dial"]
                /\ UNCHANGED conn
           ELSE /\ call' = [call EXCEPT ![g].pc = "wait"]
                /\ UNCHANGED <<poolObj, conn>>
    /\ UNCHANGED <<ring, cmu, admin, pools, outside>>

\* ConnectionPool.Get: dialer.DialContext succeeds, or fails and the created
\* counter is decremented.
Dial(g) ==
    /\ ~Crashed
    /\ call[g].pc = "dial"
    /\ LET p == call[g].pool
       IN  \/ /\ Len(conn) < MaxDials
              /\ conn' = Append(conn, [address |-> poolObj[p].address, by |-> p,
                                       state |-> "inuse", good |-> FALSE])
              /\ call' = [call EXCEPT ![g].pc = "io", ![g].conn = Len(conn) + 1]
              /\ UNCHANGED poolObj
           \/ /\ poolObj' = [poolObj EXCEPT ![p].created = @ - 1]
              /\ call' = [call EXCEPT ![g] = Fail(@, "dial")]
              /\ UNCHANGED conn
    /\ UNCHANGED <<ring, cmu, admin, pools, outside>>

\* ConnectionPool.Get, the second select: a connection arrives in the
\* channel (or the channel is closed), or cp.connTimeout passes.
Wait(g) ==
    /\ ~Crashed
    /\ call[g].pc = "wait"
    /\ LET p == call[g].pool
       IN  \/ /\ Len(poolObj[p].connections) > 0 \/ poolObj[p].closed
              /\ Receive(g)
           \/ /\ call' = [call EXCEPT ![g] = Fail(@, "connection pool timeout")]
              /\ UNCHANGED <<poolObj, conn>>
    /\ UNCHANGED <<ring, cmu, admin, pools, outside>>

\* What an attempt does with its connection: SetWriteDeadline, WriteCommand,
\* SetReadDeadline, ReadResponse.  The outcome is the step that fails, or
\* "ok".  A write or read that fails closes the connection; a deadline that
\* cannot be armed goes to returnConnection; a nil connection panics.
Outcomes == {"write deadline", "write", "read deadline", "read", "ok"}

Exchange(g) ==
    /\ ~Crashed
    /\ call[g].pc = "io"
    /\ LET id == call[g].conn
       IN  IF id = 0
           THEN /\ call' = [call EXCEPT ![g].pc = "panic"]
                /\ UNCHANGED conn
           ELSE \E outcome \in Outcomes :
                  IF outcome \in {"write", "read"}
                  THEN /\ conn' = Closed(conn, id)
                       /\ call' = [call EXCEPT ![g] = Fail(@, outcome)]
                  ELSE /\ conn' = [conn EXCEPT ![id].good = (outcome = "ok")]
                       /\ call' = [call EXCEPT ![g].pc = "return",
                                               ![g].outcome = outcome]
    /\ UNCHANGED <<ring, cmu, admin, pools, poolObj, outside>>

\* returnConnection: node := c.ring.GetNode(key); with no node the
\* connection is closed.
ReturnRoute(g) ==
    /\ ~Crashed
    /\ call[g].pc = "return"
    /\ LET node == RingGetNode(ring, call[g].key)
       IN  IF node = ""
           THEN /\ conn' = Closed(conn, call[g].conn)
                /\ call' = [call EXCEPT ![g] = Returned(@)]
           ELSE /\ call' = [call EXCEPT ![g].pc = "return lookup", ![g].node = node]
                /\ UNCHANGED conn
    /\ UNCHANGED <<ring, cmu, admin, pools, poolObj, outside>>

\* returnConnection: pool, exists := c.pools[node], under c.mu.RLock(); with
\* no pool the connection is closed.
ReturnLookup(g) ==
    /\ ~Crashed
    /\ call[g].pc = "return lookup"
    /\ cmu = "none"
    /\ IF call[g].node \in DOMAIN pools
       THEN /\ call' = [call EXCEPT ![g].pc = "put", ![g].pool = pools[call[g].node]]
            /\ UNCHANGED conn
       ELSE /\ conn' = Closed(conn, call[g].conn)
            /\ call' = [call EXCEPT ![g] = Returned(@)]
    /\ UNCHANGED <<ring, cmu, admin, pools, poolObj, outside>>

\* ConnectionPool.Put: the connection is sent to the channel if it has room
\* (a send on a closed channel panics); by default it is closed and the
\* created counter decremented.
PoolPut(g) ==
    /\ ~Crashed
    /\ call[g].pc = "put"
    /\ LET p == call[g].pool
           id == call[g].conn
       IN  IF poolObj[p].closed
           THEN /\ call' = [call EXCEPT ![g].pc = "panic"]
                /\ UNCHANGED <<poolObj, conn>>
           ELSE IF Len(poolObj[p].connections) < MaxConnsPerNode
           THEN /\ poolObj' = [poolObj EXCEPT ![p].connections = Append(@, id)]
                /\ conn' = [conn EXCEPT ![id].state = "idle"]
                /\ call' = [call EXCEPT ![g] = Returned(@)]
           ELSE /\ poolObj' = [poolObj EXCEPT ![p].created = @ - 1]
                /\ conn' = Closed(conn, id)
                /\ call' = [call EXCEPT ![g] = Returned(@)]
    /\ UNCHANGED <<ring, cmu, admin, pools, outside>>

\* AddNode: c.mu.Lock(); c.ring.AddNode(address).
AddNodeRing ==
    /\ ~Crashed
    /\ admin.pc = "idle" /\ admin.changes < MaxChanges
    /\ cmu = "none"
    /\ \E address \in Nodes :
         /\ ring' = RingAddNode(ring, address)
         /\ admin' = [admin EXCEPT !.pc = "adding", !.address = address]
    /\ cmu' = "admin"
    /\ UNCHANGED <<pools, poolObj, conn, call, outside>>

\* AddNode: the pool of the address is made unless there is one;
\* c.mu.Unlock().
AddNodePool ==
    /\ ~Crashed
    /\ admin.pc = "adding"
    /\ IF admin.address \in DOMAIN pools
       THEN UNCHANGED <<pools, poolObj>>
       ELSE /\ poolObj' = Append(poolObj, NewPool(admin.address))
            /\ pools' = [n \in (DOMAIN pools) \cup {admin.address} |->
                           IF n = admin.address THEN Len(poolObj) + 1 ELSE pools[n]]
    /\ admin' = [pc |-> "idle", address |-> "", changes |-> admin.changes + 1]
    /\ cmu' = "none"
    /\ UNCHANGED <<ring, conn, call, outside>>

\* RemoveNode: c.mu.Lock(); c.ring.RemoveNode(address).
RemoveNodeRing ==
    /\ ~Crashed
    /\ admin.pc = "idle" /\ admin.changes < MaxChanges
    /\ cmu = "none"
    /\ \E address \in Nodes :
         /\ ring' = RingRemoveNode(ring, address)
         /\ admin' = [admin EXCEPT !.pc = "removing", !.address = address]
    /\ cmu' = "admin"
    /\ UNCHANGED <<pools, poolObj, conn, call, outside>>

\* RemoveNode: pool.Close() closes the channel and the connections parked in
\* it, and the pool is deleted from c.pools; c.mu.Unlock().
RemoveNodePool ==
    /\ ~Crashed
    /\ admin.pc = "removing"
    /\ IF admin.address \in DOMAIN pools
       THEN LET p == pools[admin.address]
                parked == Range(poolObj[p].connections)
            IN  /\ poolObj' = [poolObj EXCEPT ![p].closed = TRUE,
                                              ![p].connections = <<>>]
                /\ conn' = [id \in DOMAIN conn |->
                              IF id \in parked THEN [conn[id] EXCEPT !.state = "closed"]
                              ELSE conn[id]]
                /\ pools' = [n \in (DOMAIN pools) \ {admin.address} |-> pools[n]]
       ELSE UNCHANGED <<pools, poolObj, conn>>
    /\ admin' = [pc |-> "idle", address |-> "", changes |-> admin.changes + 1]
    /\ cmu' = "none"
    /\ UNCHANGED <<ring, call, outside>>

NextClient ==
    \/ \E g \in Callers :
         \/ Begin(g) \/ GiveUp(g) \/ Route(g) \/ Lookup(g) \/ PoolGet(g) \/ Dial(g)
         \/ Wait(g) \/ Exchange(g) \/ ReturnRoute(g) \/ ReturnLookup(g) \/ PoolPut(g)
    \/ AddNodeRing \/ AddNodePool \/ RemoveNodeRing \/ RemoveNodePool

SpecClient == InitClient /\ [][NextClient]_vars

\* Every goroutine that can take a step is scheduled in the end: the calls,
\* the membership changes and the dials are bounded, so a step of the client
\* is taken as long as one is possible.
SpecClientFair == SpecClient /\ WF_vars(NextClient)

\* ---------------------------------------------------------------------- ping

\* The client on a network where the nodes of wire.down cannot be reached:
\* a dial to one of them fails; a dial to any other node succeeds and the
\* exchanges on its connections do too.
InitPing ==
    /\ data = EmptyStore
    /\ now = 1
    /\ last = NoOp
    /\ stored = [k \in Keys |-> NoStamp]
    /\ ThreadsIdle(EmptyStore)
    /\ \E nodes \in {<<"A">>, <<"A", "B">>} :
         /\ ring = RingOf(nodes)
         /\ pools = [n \in Range(nodes) |-> CHOOSE i \in 1..Len(nodes) : nodes[i] = n]
         /\ poolObj = [i \in 1..Len(nodes) |-> NewPool(nodes[i])]
         /\ \E down \in SUBSET Range(nodes) : wire = [at |-> "network", down |-> down]
    /\ cmu = "none"
    /\ admin = [pc |-> "idle", address |-> "", changes |-> 0]
    /\ conn = <<>>
    /\ call = [g \in Callers |-> NoCall]

\* Client.Ping: executeCommand of a command of type CmdPing, whose key is
\* the empty string.
Ping(g) ==
    /\ call[g].pc = "idle"
    /\ call[g].calls < MaxPings
    /\ call' = [call EXCEPT ![g] =
                  [NoCall EXCEPT !.pc = "loop", !.key = "", !.calls = call[g].calls + 1]]
    /\ UNCHANGED <<ring, cmu, admin, pools, poolObj, conn, outside>>

\* ConnectionPool.Get dials: the dial succeeds if and only if the node can
\* be reached.
NetDial(g) ==
    /\ Dial(g)
    /\ call'[g].pc = "io" <=> poolObj[call[g].pool].address \notin wire.down

\* The exchange with a node that can be reached: every step succeeds.
NetExchange(g) ==
    /\ Exchange(g)
    /\ call'[g].outcome = "ok"

NextPing ==
    \E g \in Callers :
        \/ Ping(g) \/ GiveUp(g) \/ Route(g) \/ Lookup(g) \/ PoolGet(g) \/ NetDial(g)
        \/ Wait(g) \/ NetExchange(g) \/ ReturnRoute(g) \/ ReturnLookup(g) \/ PoolPut(g)

SpecPing == InitPing /\ [][NextPing]_vars

\* -------------------------------------------------------------------- codec

\* In the codec a byte is a number of 0..255, a byte string a sequence of
\* bytes, and uint64, int64 and int are WireBits wide.
maxInt64Value == Pow2(WireBits - 1) - 1

\* Two's complement wrap-around of the int64 arithmetic of the codec.
WrapWire(n) == ((n + Pow2(WireBits - 1)) % Pow2(WireBits)) - Pow2(WireBits - 1)

\* raw[offset:], offset counted from 0.
From(raw, offset) == SubSeq(raw, offset + 1, Len(raw))

\* binary.MaxVarintLen64, and the most the last byte of a varint of that
\* length can hold.
MaxVarintLen64 == (WireBits + 6) \div 7
LastByteMax == Pow2(WireBits - 7 * (MaxVarintLen64 - 1)) - 1

\* binary.AppendUvarint: seven bits a byte, the low ones first, the high bit
\* set on every byte but the last.
RECURSIVE AppendUvarint(_, _)
AppendUvarint(buf, x) ==
    IF x >= 128 THEN AppendUvarint(Append(buf, (x % 128) + 128), x \div 128)
    ELSE Append(buf, x)

\* binary.Uvarint: the value and the number n of bytes read; n = 0 when buf
\* ends before the varint does, n < 0 when the value overflows.
RECURSIVE UvarintLoop(_, _, _, _)
UvarintLoop(buf, i, x, s) ==
    IF i >= Len(buf) THEN [val |-> 0, n |-> 0]
    ELSE LET b == buf[i + 1]
         IN  IF i = MaxVarintLen64 THEN [val |-> 0, n |-> 0 - (i + 1)]
             ELSE IF b < 128
             THEN IF i = MaxVarintLen64 - 1 /\ b > LastByteMax
                  THEN [val |-> 0, n |-> 0 - (i + 1)]
                  ELSE [val |-> x + b * Pow2(s), n |-> i + 1]
             ELSE UvarintLoop(buf, i + 1, x + (b % 128) * Pow2(s), s + 7)

Uvarint(buf) == UvarintLoop(buf, 0, 0, 0)

\* binary.AppendVarint: the zig-zag of x as an unsigned varint.
AppendVarint(buf, x) == AppendUvarint(buf, IF x < 0 THEN (0 - 2 * x) - 1 ELSE 2 * x)

\* binary.Varint
Varint(buf) ==
    LET r == Uvarint(buf)
        x == r.val \div 2
    IN  [val |-> IF r.val % 2 = 1 THEN (0 - x) - 1 ELSE x, n |-> r.n]

\* The seconds of a Duration that is not negative, as uint64(d.Seconds()).
Seconds(d) == d \div Second

\* One argument, or one item of an array, on the wire.
AppendBytes(buf, bytes) == AppendUvarint(buf, Len(bytes)) \o bytes

RECURSIVE AppendAll(_, _)
AppendAll(buf, items) ==
    IF Len(items) = 0 THEN buf
    ELSE AppendAll(AppendBytes(buf, Head(items)), Tail(items))

\* Command.Serialize
Serialize(c) ==
    LET typed == <<c.Type % 256>>
        keyed == AppendBytes(typed, c.Key)
        counted == AppendUvarint(keyed, Len(c.Args))
        argued == AppendAll(counted, c.Args)
    IN  AppendUvarint(argued, Seconds(c.TTL))

\* What a decoding step gives: no error is <<>>.  crashed: the step
\* panicked; allocated: the number of slice elements it made.
NoErr == <<>>
Decoded(msg) == [msg |-> msg, err |-> NoErr, crashed |-> FALSE, allocated |-> 0]
DecodeError(err) == [msg |-> <<>>, err |-> err, crashed |-> FALSE, allocated |-> 0]

deserializeString(raw, offset, fieldName) ==
    LET r == Uvarint(From(raw, offset))
        start == offset + r.n
    IN  IF r.n <= 0
        THEN [str |-> <<>>, newOffset |-> 0, err |-> <<"invalid ", fieldName, " length">>]
        ELSE IF r.val > Len(raw) \/ r.val > maxInt64Value
        THEN [str |-> <<>>, newOffset |-> 0, err |-> <<fieldName, " length too large">>]
        ELSE IF start + r.val > Len(raw)
        THEN [str |-> <<>>, newOffset |-> 0, err |-> <<fieldName, " data truncated">>]
        ELSE [str |-> SubSeq(raw, start + 1, start + r.val),
              newOffset |-> start + r.val, err |-> NoErr]

\* The loop of deserializeStringSlice over the left arguments.
RECURSIVE deserializeStringSliceLoop(_, _, _, _)
deserializeStringSliceLoop(raw, offset, left, args) ==
    IF left = 0 THEN [args |-> args, newOffset |-> offset, err |-> NoErr]
    ELSE LET s == deserializeString(raw, offset, "arg")
         IN  IF s.err # NoErr THEN [args |-> args, newOffset |-> 0, err |-> s.err]
             ELSE deserializeStringSliceLoop(raw, s.newOffset, left - 1,
                                             Append(args, s.str))

\* deserializeStringSlice: make([]string, argsCount) comes before any
\* argument is read; it panics when argsCount is no length of a slice.
deserializeStringSlice(raw, offset) ==
    LET r == Uvarint(From(raw, offset))
    IN  IF r.n <= 0
        THEN [args |-> <<>>, newOffset |-> 0, err |-> <<"invalid args count">>,
              crashed |-> FALSE, allocated |-> 0]
        ELSE IF r.val > maxInt64Value
        THEN [args |-> <<>>, newOffset |-> 0, err |-> NoErr,
              crashed |-> TRUE, allocated |-> 0]
        ELSE LET l == deserializeStringSliceLoop(raw, offset + r.n, r.val, <<>>)
             IN  [args |-> l.args, newOffset |-> l.newOffset, err |-> l.err,
                  crashed |-> FALSE, allocated |-> r.val]

deserializeTTL(raw, offset) ==
    LET r == Uvarint(From(raw, offset))
    IN  IF r.n <= 0 THEN [ttl |-> 0, err |-> <<"invalid TTL">>]
        ELSE IF r.val > maxInt64Value THEN [ttl |-> 0, err |-> <<"TTL too large">>]
        ELSE [ttl |-> WrapWire(r.val * Second), err |-> NoErr]

DeserializeCommand(raw) ==
    IF Len(raw) = 0 THEN DecodeError(<<"empty command data">>)
    ELSE LET key == deserializeString(raw, 1, "key")
             args == deserializeStringSlice(raw, key.newOffset)
             ttl == deserializeTTL(raw, args.newOffset)
         IN  IF key.err # NoErr THEN DecodeError(key.err)
             ELSE IF args.crashed
             THEN [msg |-> <<>>, err |-> NoErr, crashed |-> TRUE, allocated |-> 0]
             ELSE IF args.err # NoErr
             THEN [DecodeError(args.err) EXCEPT !.allocated = args.allocated]
             ELSE IF ttl.err # NoErr
             THEN [DecodeError(ttl.err) EXCEPT !.allocated = args.allocated]
             ELSE [Decoded(Command(raw[1], key.str, args.args, ttl.ttl))
                     EXCEPT !.allocated = args.allocated]

\* Response.Serialize
ResponseSerialize(r) ==
    LET buf == <<r.Type % 256>>
    IN  IF r.Type = RespError THEN AppendBytes(buf, r.Error)
        ELSE IF r.Type = RespString THEN AppendBytes(buf, r.Str)
        ELSE IF r.Type = RespInt THEN AppendVarint(buf, r.Int)
        ELSE IF r.Type = RespArray THEN AppendAll(AppendUvarint(buf, Len(r.Arr)), r.Arr)
        ELSE buf

deserializeErrorResponse(resp, raw, offset) ==
    LET s == deserializeString(raw, offset, "error")
    IN  IF s.err # NoErr THEN DecodeError(s.err)
        ELSE Decoded([resp EXCEPT !.Error = s.str])

deserializeStringResponse(resp, raw, offset) ==
    LET s == deserializeString(raw, offset, "string")
    IN  IF s.err # NoErr THEN DecodeError(s.err)
        ELSE Decoded([resp EXCEPT !.Str = s.str])

deserializeIntResponse(resp, raw, offset) ==
    LET r == Varint(From(raw, offset))
    IN  IF r.n <= 0 THEN DecodeError(<<"invalid integer">>)
        ELSE Decoded([resp EXCEPT !.Int = r.val])

deserializeArrayResponse(resp, raw, offset) ==
    LET a == deserializeStringSlice(raw, offset)
    IN  IF a.crashed
        THEN [msg |-> <<>>, err |-> NoErr, crashed |-> TRUE, allocated |-> 0]
        ELSE IF a.err # NoErr
        THEN [DecodeError(a.err) EXCEPT !.allocated = a.allocated]
        ELSE [Decoded([resp EXCEPT !.Arr = a.args]) EXCEPT !.allocated = a.allocated]

DeserializeResponse(raw) ==
    IF Len(raw) = 0 THEN DecodeError(<<"empty response data">>)
    ELSE LET resp == Response(raw[1])
         IN  IF resp.Type \in {RespOK, RespNil} THEN Decoded(resp)
             ELSE IF resp.Type = RespError THEN deserializeErrorResponse(resp, raw, 1)
             ELSE IF resp.Type = RespString THEN deserializeStringResponse(resp, raw, 1)
             ELSE IF resp.Type = RespInt THEN deserializeIntResponse(resp, raw, 1)
             ELSE IF resp.Type = RespArray THEN deserializeArrayResponse(resp, raw, 1)
             ELSE Decoded(resp)

\* ------------------------------------------------------------- codec at work

\* The store, the goroutines and the client while the codec alone works.
NoProgram ==
    /\ data = EmptyStore
    /\ now = 1
    /\ last = NoOp
    /\ stored = [k \in Keys |-> NoStamp]
    /\ ThreadsIdle(EmptyStore)
    /\ NoClient

notWire == <<storeVars, threadVars, clientVars>>

\* Byte strings of the messages: empty, one byte, and bytes 0 and 255.
CodecStrings == {<<>>, <<107>>, <<0, 255>>}
CodecLists == {<<>>, <<<<>>>>, <<<<118>>>>, <<<<118>>, <<0, 255>>>>}
\* No TTL, half a second, one second, five seconds.
CodecTTLs == {0, 1, Second, 5 * Second}

CodecCommands ==
    {Command(type, key, args, ttl) :
        type \in CmdGet..CmdPing, key \in CodecStrings,
        args \in CodecLists, ttl \in CodecTTLs}

CodecResponses ==
    {Response(RespOK), Response(RespNil)}
        \cup {ErrorResponse(m) : m \in CodecStrings \ {<<>>}}
        \cup {StringResponse(s) : s \in CodecStrings}
        \cup {IntResponse(i) : i \in (0 - maxInt64Value - 1)..maxInt64Value}
        \cup {ArrayResponse(a) : a \in CodecLists}

\* The payloads that come from the network: every byte string of at most
\* MaxPayload bytes over PayloadBytes.
PayloadBytes == {0, 1, 2, 3, 4, 127, 128, 255}
Payloads == UNION {[1..n -> PayloadBytes] : n \in 0..MaxPayload}

NoMessage == <<>>

\* A message to encode, or a payload to decode.
InitCodec ==
    /\ NoProgram
    /\ \E kind \in {"command", "response"} :
         \/ \E msg \in (IF kind = "command" THEN CodecCommands ELSE CodecResponses) :
              wire = [at |-> "message", kind |-> kind, msg |-> msg,
                      bytes |-> <<>>, res |-> Decoded(NoMessage)]
         \/ \E bytes \in Payloads :
              wire = [at |-> "payload", kind |-> kind, msg |-> NoMessage,
                      bytes |-> bytes, res |-> Decoded(NoMessage)]

SerializeCommand ==
    /\ wire.at = "message" /\ wire.kind = "command"
    /\ wire' = [wire EXCEPT !.at = "payload", !.bytes = Serialize(wire.msg)]
    /\ UNCHANGED notWire

SerializeResponse ==
    /\ wire.at = "message" /\ wire.kind = "response"
    /\ wire' = [wire EXCEPT !.at = "payload", !.bytes = ResponseSerialize(wire.msg)]
    /\ UNCHANGED notWire

DecodeCommand ==
    /\ wire.at = "payload" /\ wire.kind = "command"
    /\ wire' = [wire EXCEPT !.at = "decoded", !.res = DeserializeCommand(wire.bytes)]
    /\ UNCHANGED notWire

DecodeResponse ==
    /\ wire.at = "payload" /\ wire.kind = "response"
    /\ wire' = [wire EXCEPT !.at = "decoded", !.res = DeserializeResponse(wire.bytes)]
    /\ UNCHANGED notWire

NextCodec == SerializeCommand \/ SerializeResponse \/ DecodeCommand \/ DecodeResponse

SpecCodec == InitCodec /\ [][NextCodec]_vars

\* ------------------------------------------------------------------- frames

\* binary.BigEndian.PutUint32 and binary.BigEndian.Uint32
PutUint32(v) ==
    <<(v \div (256 * 256 * 256)) % 256, (v \div (256 * 256)) % 256,
      (v \div 256) % 256, v % 256>>
Uint32(b) == ((b[1] * 256 + b[2]) * 256 + b[3]) * 256 + b[4]

\* WriteCommand, WriteResponse: the header and the payload that are written.
Framed(payload) == PutUint32(Len(payload)) \o payload

EOF == <<"EOF">>
ErrUnexpectedEOF == <<"unexpected EOF">>

\* A read that fills a zeroed buffer with what is there and reports nothing.
ReadIgnoringShort(stream, pos, n) ==
    [data |-> [i \in 1..n |-> IF pos + i <= Len(stream) THEN stream[pos + i] ELSE 0],
     err |-> NoErr]

\* io.ReadFull of n bytes from the stream at pos: all of them, or EOF when
\* none is left, or ErrUnexpectedEOF when some but not all are.
ReadFull(stream, pos, n) ==
    IF pos + n <= Len(stream)
    THEN [data |-> SubSeq(stream, pos + 1, pos + n), err |-> NoErr]
    ELSE [data |-> <<>>, err |-> IF pos = Len(stream) THEN EOF ELSE ErrUnexpectedEOF]

\* The header and the payload read with a limit that a frame has to stay
\* under.
readFrameBelowLimit(stream, pos, what) ==
    LET lengthBuf == ReadFull(stream, pos, protocolHeaderSize)
        length == Uint32(lengthBuf.data)
        payload == ReadFull(stream, pos + protocolHeaderSize, length)
    IN  IF lengthBuf.err # NoErr
        THEN [data |-> <<>>, err |-> lengthBuf.err, size |-> 0,
              length |-> 0 - 1, taken |-> Len(stream) - pos]
        ELSE IF length >= 1024 * 1024
        THEN [data |-> <<>>, err |-> <<what, " too large">>, size |-> 0,
              length |-> length, taken |-> protocolHeaderSize]
        ELSE IF payload.err # NoErr
        THEN [data |-> <<>>, err |-> payload.err, size |-> 0,
              length |-> length, taken |-> Len(stream) - pos]
        ELSE [data |-> payload.data, err |-> NoErr, size |-> protocolHeaderSize + length,
              length |-> length, taken |-> protocolHeaderSize + length]

\* The first half of ReadCommand and ReadResponse: the header, the length
\* test and the payload.  what is "command" or "response".
\* length is the length prefix (-1 when no header was read) and taken the
\* number of bytes the reads took from the stream.
readFrame(stream, pos, what) ==
    LET lengthBuf == ReadFull(stream, pos, protocolHeaderSize)
        length == Uint32(lengthBuf.data)
        payload == ReadFull(stream, pos + protocolHeaderSize, length)
    IN  IF lengthBuf.err # NoErr
        THEN [data |-> <<>>, err |-> lengthBuf.err, size |-> 0,
              length |-> 0 - 1, taken |-> Len(stream) - pos]
        ELSE IF length > 1024 * 1024
        THEN [data |-> <<>>, err |-> <<what, " too large">>, size |-> 0,
              length |-> length, taken |-> protocolHeaderSize]
        ELSE IF payload.err # NoErr
        THEN [data |-> <<>>, err |-> payload.err, size |-> 0,
              length |-> length, taken |-> Len(stream) - pos]
        ELSE [data |-> payload.data, err |-> NoErr, size |-> protocolHeaderSize + length,
              length |-> length, taken |-> protocolHeaderSize + length]

\* The commands and the responses that are framed.
FrameCommands ==
    {Command(CmdGet, <<107>>, <<>>, 0),
     Command(CmdSet, <<107>>, <<<<118>>>>, Second),
     Command(CmdPing, <<>>, <<>>, 0)}
FrameResponses ==
    {Response(RespOK), StringResponse(<<118>>), IntResponse(0 - 65),
     ArrayResponse(<<<<97>>, <<>>>>)}

\* A writer frames up to MaxFrames messages into the stream; the stream
\* ends, whole or with its last bytes lost; a reader reads message after
\* message until a read fails.
InitFrames ==
    /\ NoProgram
    /\ \E kind \in {"command", "response"} :
         wire = [at |-> "writing", kind |-> kind, msgs |-> <<>>, stream |-> <<>>,
                 tail |-> 0, cut |-> 0, pos |-> 0, got |-> <<>>]

Write(msg, payload) ==
    /\ wire.at = "writing"
    /\ Len(wire.msgs) < MaxFrames
    /\ wire' = [wire EXCEPT !.msgs = Append(@, msg),
                            !.stream = @ \o Framed(payload),
                            !.tail = Len(Framed(payload))]
    /\ UNCHANGED notWire

WriteCommand ==
    /\ wire.kind = "command"
    /\ \E cmd \in FrameCommands : Write(cmd, Serialize(cmd))

WriteResponse ==
    /\ wire.kind = "response"
    /\ \E resp \in FrameResponses : Write(resp, ResponseSerialize(resp))

\* The stream ends after the last frame.
EndStream ==
    /\ wire.at = "writing"
    /\ wire' = [wire EXCEPT !.at = "reading"]
    /\ UNCHANGED notWire

\* The stream ends with the last frame short of 1 to all of its bytes.
Truncate ==
    /\ wire.at = "writing"
    /\ Len(wire.msgs) > 0
    /\ \E lost \in 1..wire.tail :
         wire' = [wire EXCEPT !.at = "reading", !.cut = lost,
                              !.stream = SubSeq(@, 1, Len(@) - lost)]
    /\ UNCHANGED notWire

\* The reader has read: the message or the error is what it yields; an
\* error ends the reading.
Read(frame, res) ==
    LET err == IF frame.err # NoErr THEN frame.err ELSE res.err
    IN  /\ wire' = [wire EXCEPT !.got = Append(@, [msg |-> res.msg, err |-> err]),
                                !.pos = @ + frame.size,
                                !.at = IF err # NoErr THEN "closed" ELSE "reading"]
        /\ UNCHANGED notWire

ReadCommand ==
    /\ wire.at = "reading" /\ wire.kind = "command"
    /\ LET frame == readFrame(wire.stream, wire.pos, "command")
       IN  Read(frame, IF frame.err # NoErr THEN DecodeError(frame.err)
                       ELSE DeserializeCommand(frame.data))

ReadResponse ==
    /\ wire.at = "reading" /\ wire.kind = "response"
    /\ LET frame == readFrame(wire.stream, wire.pos, "response")
       IN  Read(frame, IF frame.err # NoErr THEN DecodeError(frame.err)
                       ELSE DeserializeResponse(frame.data))

NextFrames ==
    \/ WriteCommand \/ WriteResponse \/ EndStream \/ Truncate
    \/ ReadCommand \/ ReadResponse

SpecFrames == InitFrames /\ [][NextFrames]_vars

\* --------------------------------------------------------------- connections

\* string(raw[...]): the bytes of a string of the wire as the characters of
\* a string of the store.
Ascii ==
    (45 :> "-") @@ (49 :> "1") @@ (97 :> "a") @@ (102 :> "f") @@ (107 :> "k")
        @@ (118 :> "v")
Text(bytes) == [i \in 1..Len(bytes) |-> Ascii[bytes[i]]]

\* The command of the wire as the handlers see it.
Received(cmd) ==
    Command(cmd.Type, Text(cmd.Key), [i \in 1..Len(cmd.Args) |-> Text(cmd.Args[i])],
            cmd.TTL)

\* The orders in which the handler of the command can meet the fields of the
\* hash or the members of the set it iterates.
IterationOrders(d, t, cmd) ==
    IF cmd.Type = CmdHGetAll THEN Orders(DOMAIN HGetAll(d, t, cmd.Key).ret)
    ELSE IF cmd.Type = CmdSMembers THEN Orders(SMembers(d, t, cmd.Key).ret)
    ELSE {<<>>}

\* What a client sends on a connection.  The key is "k".
ConnKey == <<107>>

\* Commands with every argument they require.
WholeCommands ==
    {Command(CmdSet, ConnKey, <<<<118>>>>, 0),
     Command(CmdGet, ConnKey, <<>>, 0),
     Command(CmdHSet, ConnKey, <<<<102>>, <<118>>>>, 0),
     Command(CmdPing, <<>>, <<>>, 0)}

\* The types of the commands that require an argument.
ArgumentTypes ==
    {CmdSet, CmdIncrBy, CmdDecrBy, CmdHGet, CmdHSet, CmdHDel, CmdHExists,
     CmdLPush, CmdRPush, CmdSAdd, CmdSRem, CmdSIsMember}

\* Commands that lack a required argument: no argument at all, and HSET
\* with a field and no value.
LackingCommands ==
    {Command(type, ConnKey, <<>>, 0) : type \in ArgumentTypes}
        \cup {Command(CmdHSet, ConnKey, <<<<102>>>>, 0)}

\* Commands of a type that is no command.
UnknownCommands == {Command(type, ConnKey, <<>>, 0) : type \in UnknownTypes}

\* A header that announces one byte more than 1 MiB, and one that announces
\* 2^31 - 1 bytes.
Oversized == {PutUint32(1024 * 1024 + 1), <<127, 255, 255, 255>>}

\* The bytes a peer sends: the bytes first, then zeros zero bytes, then the
\* bytes after them.
Sent(first, zeros, then) == [first |-> first, zeros |-> zeros, then |-> then]
Stream(in) == in.first \o [i \in 1..in.zeros |-> 0] \o in.then
StreamLen(in) == Len(in.first) + in.zeros + Len(in.then)

\* A frame whose payload is two bytes short.
ShortPayload == PutUint32(4) \o <<CmdGet, 0>>

\* Payloads that are no command: a key length whose varint does not end, a
\* key length whose varint overflows, a key longer than the payload, and no
\* payload at all.
MalformedPayloads == {<<CmdGet, 128>>, <<CmdGet, 255, 255, 1>>, <<CmdGet, 3, 107>>, <<>>}

\* A payload whose argument count is no length of a slice.
PanicPayload == <<CmdGet, 0, 128, 1>>

\* What the stream of a connection is made of, the frame of 1 MiB aside.
CommandItems ==
    {Framed(Serialize(cmd)) : cmd \in WholeCommands \cup LackingCommands \cup UnknownCommands}
        \cup Oversized \cup {ShortPayload, Framed(PanicPayload)}
        \cup {Framed(payload) : payload \in MalformedPayloads}

\* What a server sends back on a connection.
ResponseItems ==
    {Framed(ResponseSerialize(resp)) : resp \in FrameResponses}
        \cup Oversized \cup {ShortPayload, Framed(<<>>), Framed(<<RespString, 128>>)}

\* The streams of at most n items.
RECURSIVE StreamsOf(_, _)
StreamsOf(items, n) ==
    IF n = 0 THEN {<<>>}
    ELSE LET shorter == StreamsOf(items, n - 1)
         IN  shorter \cup {s \o item : s \in shorter, item \in items}

\* The streams with a frame of 1 MiB, which is a GET of the empty key and
\* zeroes: alone, before a command, before a header that announces one byte
\* more, and with its last byte missing.
LimitStreams ==
    {Sent(PutUint32(1024 * 1024), 1024 * 1024, then) :
        then \in {<<>>, Framed(<<CmdPing, 0, 0, 0>>), PutUint32(1024 * 1024 + 1)}}
        \cup {Sent(PutUint32(1024 * 1024), 1024 * 1024 - 1, <<>>)}

\* The store a connection finds: empty, or with a string at "k".
ConnStores == {EmptyStore, Set(EmptyStore, 1, <<"k">>, <<"v">>, 0).data}

NoCommand == <<>>

notConn == <<now, stored, threadVars, clientVars>>

\* A connection of the server (handleConnection runs on it) or of the client
\* (executeCommand took it from a pool), and the bytes the peer sends on it.
InitConn ==
    /\ data \in ConnStores
    /\ now = 1
    /\ last = NoOp
    /\ stored = [k \in Keys |-> NoStamp]
    /\ ThreadsIdle(EmptyStore)
    /\ NoClient
    /\ \E side \in {"server", "client"} :
         \E in \in {Sent(stream, 0, <<>>) :
                        stream \in StreamsOf(IF side = "server" THEN CommandItems
                                             ELSE ResponseItems, MaxRequests)}
                        \cup LimitStreams :
            wire = [at |-> "conn", side |-> side, pc |-> "read", in |-> in,
                    pos |-> 0, frames |-> <<>>, cmd |-> NoCommand,
                    resp |-> Response(RespOK), received |-> <<>>, sent |-> <<>>,
                    err |-> NoErr, panicked |-> FALSE]

\* return, after the deferred conn.Close().
ConnClosed(w, err) == [w EXCEPT !.pc = "closed", !.err = err]

\* What a read of a frame leaves in the history of the reads.
FrameRead(frame, pos) ==
    [at |-> pos, length |-> frame.length, taken |-> frame.taken, err |-> frame.err]

\* handleConnection: SetReadDeadline and ReadCommand.  The deadline cannot
\* be armed, or it elapses before the peer sends a byte, or the bytes of the
\* stream are read and decoded; every error returns, a panic of the decoder
\* returns through the deferred Close and ends the process.
ConnRead ==
    /\ wire.at = "conn" /\ wire.side = "server" /\ wire.pc = "read"
    /\ \E outcome \in {"read deadline", "timeout", "bytes"} :
         IF outcome # "bytes"
         THEN wire' = ConnClosed(wire, <<outcome>>)
         ELSE LET frame == readFrame(Stream(wire.in), wire.pos, "command")
                  res == DeserializeCommand(frame.data)
                  read == [wire EXCEPT !.frames = Append(@, FrameRead(frame, wire.pos)),
                                       !.pos = @ + frame.taken]
              IN  IF frame.err # NoErr THEN wire' = ConnClosed(read, frame.err)
                  ELSE IF res.crashed
                  THEN wire' = [ConnClosed(read, <<"panic">>) EXCEPT !.panicked = TRUE]
                  ELSE IF res.err # NoErr THEN wire' = ConnClosed(read, res.err)
                  ELSE wire' = [read EXCEPT !.pc = "execute", !.cmd = res.msg,
                                            !.received = Append(@, res.msg)]
    /\ UNCHANGED <<data, last, notConn>>

\* handleConnection: resp := s.executeCommand(cmd).
ConnExecute ==
    /\ wire.at = "conn" /\ wire.side = "server" /\ wire.pc = "execute"
    /\ LET cmd == Received(wire.cmd)
       IN  \E order \in IterationOrders(data, now, cmd) :
             LET res == executeCommand(data, now, cmd, order)
             IN  /\ data' = res.data
                 /\ last' = [op |-> "command", key |-> cmd.Key, args |-> cmd,
                             ret |-> res.ret, pre |-> data]
                 /\ wire' = [wire EXCEPT !.pc = "write", !.resp = res.ret]
    /\ UNCHANGED notConn

\* The response written twice.
WrittenTwice(sent, cmd, resp) ==
    sent \o <<[cmd |-> cmd, resp |-> resp], [cmd |-> cmd, resp |-> resp]>>

\* What was written on the connection after the response resp to cmd.
Written(sent, cmd, resp) == Append(sent, [cmd |-> cmd, resp |-> resp])

\* handleConnection: SetWriteDeadline and WriteResponse, and around the loop;
\* every error returns.
ConnWrite ==
    /\ wire.at = "conn" /\ wire.side = "server" /\ wire.pc = "write"
    /\ \E outcome \in {"write deadline", "write", "written"} :
         IF outcome # "written"
         THEN wire' = ConnClosed(wire, <<outcome>>)
         ELSE wire' = [wire EXCEPT !.pc = "read", !.cmd = NoCommand,
                                   !.sent = Written(@, wire.cmd, wire.resp)]
    /\ UNCHANGED <<data, last, notConn>>

\* executeCommand of the client, after the command was written: ReadResponse;
\* an error closes the connection, a response is returned and the connection
\* goes back to its pool, from where the next call takes it.
ClientRead ==
    /\ wire.at = "conn" /\ wire.side = "client" /\ wire.pc = "read"
    /\ LET frame == readFrame(Stream(wire.in), wire.pos, "response")
           res == DeserializeResponse(frame.data)
           read == [wire EXCEPT !.frames = Append(@, FrameRead(frame, wire.pos)),
                                !.pos = @ + frame.taken]
       IN  IF frame.err # NoErr THEN wire' = ConnClosed(read, frame.err)
           ELSE IF res.crashed
           THEN wire' = [ConnClosed(read, <<"panic">>) EXCEPT !.panicked = TRUE]
           ELSE IF res.err # NoErr THEN wire' = ConnClosed(read, res.err)
           ELSE wire' = [read EXCEPT !.received = Append(@, res.msg)]
    /\ UNCHANGED <<data, last, notConn>>

NextConn == ConnRead \/ ConnExecute \/ ConnWrite \/ ClientRead

SpecConn == InitConn /\ [][NextConn]_vars

\* ------------------------------------------------------------------ listener

\* The peers that dial the server.
Peers == {"p1", "p2"}

notListener == <<storeVars, threadVars, clientVars>>

\* Server.New: no listener yet.  start is where Start is, bound the
\* net.Listener, field whether s.listener holds it, stop what the last call
\* of Stop returned, logged the accept failures that were logged (counted
\* modulo MaxAcceptErrors + 1), and peer where each peer's connection is and
\* the commands served on it.
InitListener ==
    /\ NoProgram
    /\ wire = [at |-> "listener", start |-> "listen", bound |-> "none",
               field |-> FALSE, stop |-> "not called", logged |-> 0,
               peer |-> [p \in Peers |-> [state |-> "away", served |-> 0]]]

\* Start: lc.Listen; an error returns from Start.
StartListen ==
    /\ wire.at = "listener" /\ wire.start = "listen"
    /\ \/ wire' = [wire EXCEPT !.start = "returned"]
       \/ wire' = [wire EXCEPT !.start = "assign", !.bound = "open"]
    /\ UNCHANGED notListener

\* Start: s.listener = listener.
StartAssign ==
    /\ wire.at = "listener" /\ wire.start = "assign"
    /\ wire' = [wire EXCEPT !.start = "accept", !.field = TRUE]
    /\ UNCHANGED notListener

\* A peer dials: its connection waits to be accepted while the listener is
\* open, and is refused otherwise.
PeerDial(p) ==
    /\ wire.at = "listener" /\ wire.peer[p].state = "away"
    /\ wire' = [wire EXCEPT !.peer[p].state =
                                IF wire.bound = "open" THEN "waiting" ELSE "refused"]
    /\ UNCHANGED notListener

\* Start: listener.Accept() returns a connection, go s.handleConnection(conn).
StartAccept(p) ==
    /\ wire.at = "listener" /\ wire.start = "accept"
    /\ wire.bound = "open" /\ wire.peer[p].state = "waiting"
    /\ wire' = [wire EXCEPT !.peer[p].state = "serving"]
    /\ UNCHANGED notListener

\* Start: listener.Accept() returns an error, at once and every time when
\* the listener is closed; the error is logged and the loop continues.
StartAcceptError ==
    /\ wire.at = "listener" /\ wire.start = "accept"
    /\ wire' = [wire EXCEPT !.logged = (@ + 1) % (MaxAcceptErrors + 1)]
    /\ UNCHANGED notListener

\* Stop: s.listener.Close() when s.listener is set, nil otherwise.  Closing
\* the listener drops the connections that wait to be accepted; closing it
\* again returns an error.
Stop ==
    /\ wire.at = "listener"
    /\ IF ~wire.field THEN wire' = [wire EXCEPT !.stop = "nil"]
       ELSE IF wire.bound = "closed" THEN wire' = [wire EXCEPT !.stop = "error"]
       ELSE wire' = [wire EXCEPT
                       !.stop = "closed", !.bound = "closed",
                       !.peer = [p \in Peers |->
                                   IF @[p].state = "waiting"
                                   THEN [@[p] EXCEPT !.state = "refused"] ELSE @[p]]]
    /\ UNCHANGED notListener

\* handleConnection, once around its loop.
HandleConnection(p) ==
    /\ wire.at = "listener" /\ wire.peer[p].state = "serving"
    /\ wire.peer[p].served < MaxRequests
    /\ wire' = [wire EXCEPT !.peer[p].served = @ + 1]
    /\ UNCHANGED notListener

\* handleConnection returns: the peer closed the connection, or a step
\* failed.
HandleConnectionReturn(p) ==
    /\ wire.at = "listener" /\ wire.peer[p].state = "serving"
    /\ wire' = [wire EXCEPT !.peer[p].state = "done"]
    /\ UNCHANGED notListener

NextListener ==
    \/ StartListen \/ StartAssign \/ StartAcceptError \/ Stop
    \/ \E p \in Peers :
         \/ PeerDial(p) \/ StartAccept(p) \/ HandleConnection(p)
         \/ HandleConnectionReturn(p)

SpecListener == InitListener /\ [][NextListener]_vars

\* The goroutine of Start and the goroutines of the connections are
\* scheduled as long as they can take a step.
SpecListenerFair == SpecListener /\ WF_vars(NextListener)

\* ------------------------------------------------------- a call to a server

\* []byte(s): the characters of a string of the store as bytes of the wire.
Bytes(text) ==
    [i \in 1..Len(text) |-> CHOOSE b \in DOMAIN Ascii : Ascii[b] = text[i]]

\* The response of a handler as Response.Serialize takes it.
Answered(resp) ==
    [resp EXCEPT !.Str = Bytes(@), !.Arr = [i \in 1..Len(@) |-> Bytes(@[i])]]

\* The durations Client.Set is called with: none, half a second, a second,
\* a second and a half.
RemoteTTLs == {0, Second \div 2, Second, Second + Second \div 2}

notRemote == <<stored, threadVars, clientVars>>

\* A client and the one server of its ring, on a connection that works.  The
\* record of wire holds where the call is (pc), the command of the call, the
\* bytes on the connection, what the call returned (ret: "nil", "key not
\* found", "server error" or the string), and of the last Set that was
\* served the duration the client asked for and the time it was served at.
InitRemote ==
    /\ NoProgram
    /\ wire = [at |-> "remote", pc |-> "idle", cmd |-> NoCommand, bytes |-> <<>>,
               ret |-> <<"nil">>, ttl |-> 0, served |-> 0]

\* Client.Set up to the command written by executeCommand.
RemoteSet ==
    /\ wire.at = "remote" /\ wire.pc = "idle"
    /\ \E ttl \in RemoteTTLs :
         LET cmd == Command(CmdSet, ConnKey, <<<<118>>>>, ttl)
         IN  wire' = [wire EXCEPT !.pc = "sent", !.cmd = cmd,
                                  !.bytes = Serialize(cmd)]
    /\ UNCHANGED <<data, now, last, notRemote>>

\* Client.Get up to the command written by executeCommand.
RemoteGet ==
    /\ wire.at = "remote" /\ wire.pc = "idle"
    /\ LET cmd == Command(CmdGet, ConnKey, <<>>, 0)
       IN  wire' = [wire EXCEPT !.pc = "sent", !.cmd = cmd, !.bytes = Serialize(cmd)]
    /\ UNCHANGED <<data, now, last, notRemote>>

\* handleConnection, once around its loop: the command is decoded and
\* executed, and the response is written.
RemoteServe ==
    /\ wire.at = "remote" /\ wire.pc = "sent"
    /\ \E cmd \in {Received(DeserializeCommand(wire.bytes).msg)} :
         \E res \in {executeCommand(data, now, cmd, <<>>)} :
            /\ data' = res.data
            /\ last' = [op |-> "command", key |-> cmd.Key, args |-> cmd,
                        ret |-> res.ret, pre |-> data]
            /\ wire' = [wire EXCEPT
                          !.pc = "answered",
                          !.bytes = ResponseSerialize(Answered(res.ret)),
                          !.ttl = IF cmd.Type = CmdSet THEN wire.cmd.TTL ELSE @,
                          !.served = IF cmd.Type = CmdSet THEN now ELSE @]
    /\ UNCHANGED <<now, notRemote>>

\* executeCommand reads the response, and Client.Set or executeStringCommand
\* returns.
RemoteReturn ==
    /\ wire.at = "remote" /\ wire.pc = "answered"
    /\ LET resp == DeserializeResponse(wire.bytes).msg
           ret == IF resp.Type = RespError THEN <<"server error">>
                  ELSE IF wire.cmd.Type = CmdSet THEN <<"nil">>
                  ELSE IF resp.Type = RespNil THEN <<"key not found">>
                  ELSE IF resp.Type # RespString THEN <<"unexpected response type">>
                  ELSE Text(resp.Str)
       IN  wire' = [wire EXCEPT !.pc = "idle", !.bytes = <<>>, !.ret = ret]
    /\ UNCHANGED <<data, now, last, notRemote>>

\* The clock advances while the client is not in a call.
RemoteTick ==
    /\ wire.at = "remote" /\ wire.pc = "idle"
    /\ now < MaxTime
    /\ now' = now + 1
    /\ UNCHANGED <<data, last, wire, notRemote>>

NextRemote == RemoteSet \/ RemoteGet \/ RemoteServe \/ RemoteReturn \/ RemoteTick

SpecRemote == InitRemote /\ [][NextRemote]_vars

\* ------------------------------------------------------------ a call retried

\* The counter commands a call sends.
RetryTypes == {CmdIncr, CmdDecr}

notRetry == <<now, stored, threadVars, clientVars>>

\* One caller and the server of its key.  The record of wire holds where the
\* call is in executeCommand (pc), its command and attempt, the attempts
\* whose command was written and not yet read by the server (written), the
\* response the server wrote to each attempt (answers), how often the server
\* executed the command of the call (applied), the store when the call began
\* (before), what the call returned (result, resp), and the calls made.
InitRetry ==
    /\ NoProgram
    /\ wire = [at |-> "retry", pc |-> "idle", cmd |-> NoCommand, attempt |-> 0,
               written |-> {}, answers |-> <<>>, applied |-> 0, before |-> EmptyStore,
               result |-> "", resp |-> Response(RespNil), calls |-> 0]

\* Client.Incr or Client.Decr: executeCommand starts with attempt 0.  The
\* server has read what the call before wrote.
RetryCall ==
    /\ wire.at = "retry" /\ wire.pc = "idle" /\ wire.calls < MaxRetryCalls
    /\ wire.written = {}
    /\ \E type \in RetryTypes :
         LET cmd == Command(type, "k1", <<>>, 0)
         IN  wire' = [wire EXCEPT !.pc = "loop", !.cmd = cmd, !.attempt = 0,
                                  !.written = {}, !.answers = <<>>, !.applied = 0,
                                  !.before = data, !.result = "",
                                  !.resp = Response(RespNil), !.calls = @ + 1]
    /\ UNCHANGED <<data, last, notRetry>>

\* An attempt: a connection is obtained and WriteCommand writes the command,
\* or the attempt fails before anything is written (no connection, the
\* write deadline, the write).
RetryWrite ==
    /\ wire.at = "retry" /\ wire.pc = "loop" /\ AttemptsLeft(wire)
    /\ \/ wire' = [wire EXCEPT !.attempt = @ + 1]
       \/ wire' = [wire EXCEPT !.pc = "written", !.written = @ \cup {wire.attempt}]
    /\ UNCHANGED <<data, last, notRetry>>

\* handleConnection on the connection of one of the attempts: the command
\* is read and executed, and the response is written.
RetryServe ==
    /\ wire.at = "retry"
    /\ \E a \in wire.written :
         LET res == executeCommand(data, now, wire.cmd, <<>>)
         IN  /\ data' = res.data
             /\ last' = [op |-> "command", key |-> wire.cmd.Key, args |-> wire.cmd,
                         ret |-> res.ret, pre |-> data]
             /\ wire' = [wire EXCEPT !.written = @ \ {a}, !.applied = @ + 1,
                                     !.answers = (a :> res.ret) @@ @]
    /\ UNCHANGED notRetry

\* ReadResponse fails (the read deadline elapses, the connection breaks):
\* the connection is closed, lastErr set, and the loop goes on.
RetryReadError ==
    /\ wire.at = "retry" /\ wire.pc = "written"
    /\ wire' = [wire EXCEPT !.pc = "loop", !.attempt = @ + 1]
    /\ UNCHANGED <<data, last, notRetry>>

\* ReadResponse reads the response of the server to this attempt, and
\* executeCommand returns it.
RetryRead ==
    /\ wire.at = "retry" /\ wire.pc = "written"
    /\ wire.attempt \in DOMAIN wire.answers
    /\ wire' = [wire EXCEPT !.pc = "idle", !.result = "ok",
                            !.resp = wire.answers[wire.attempt]]
    /\ UNCHANGED <<data, last, notRetry>>

\* The loop is over: executeCommand returns the error that wraps lastErr.
RetryGiveUp ==
    /\ wire.at = "retry" /\ wire.pc = "loop" /\ ~AttemptsLeft(wire)
    /\ wire' = [wire EXCEPT !.pc = "idle", !.result = "error"]
    /\ UNCHANGED <<data, last, notRetry>>

NextRetry ==
    RetryCall \/ RetryWrite \/ RetryServe \/ RetryReadError \/ RetryRead \/ RetryGiveUp

SpecRetry == InitRetry /\ [][NextRetry]_vars

\* ------------------------------------------------------------- text commands

\* A line is a sequence of characters.  unicode.IsSpace, for the characters
\* of the lines below.
IsSpace(c) == c \in {" ", "\t"}

LowerChars == <<"d", "e", "g", "s", "t">>
UpperChars == <<"D", "E", "G", "S", "T">>

\* strings.ToUpper
ToUpper(s) ==
    [i \in 1..Len(s) |->
        IF \E j \in 1..Len(LowerChars) : LowerChars[j] = s[i]
        THEN UpperChars[CHOOSE j \in 1..Len(LowerChars) : LowerChars[j] = s[i]]
        ELSE s[i]]

\* strings.Fields(strings.TrimSpace(line)): the maximal runs of characters
\* that are no white space.
RECURSIVE FieldsLoop(_, _, _, _)
FieldsLoop(line, i, field, parts) ==
    IF i > Len(line) THEN (IF field = <<>> THEN parts ELSE Append(parts, field))
    ELSE IF IsSpace(line[i])
    THEN FieldsLoop(line, i + 1, <<>>, IF field = <<>> THEN parts ELSE Append(parts, field))
    ELSE FieldsLoop(line, i + 1, Append(field, line[i]), parts)

Fields(line) == FieldsLoop(line, 1, <<>>, <<>>)

\* strconv.Atoi: int is as wide as int64.
Atoi(s) == ParseInt(s)

minArgsForSet == 3
exactArgsForGet == 2
exactArgsForDel == 2
exactArgsForExists == 2
exactArgsForIncr == 2
exactArgsForDecr == 2

\* What ParseTextCommand returns: the command and no error, or an error.
Parsed(cmd) == [cmd |-> cmd, err |-> NoErr]
ParseError(err) == [cmd |-> NoCommand, err |-> err]

\* parseGetCommand, parseDelCommand, parseExistsCommand, parseIncrCommand,
\* parseDecrCommand
parseKeyCommand(parts, type, exact, name) ==
    IF Len(parts) # exact THEN ParseError(<<name, " requires exactly 1 argument">>)
    ELSE Parsed(Command(type, parts[2], <<>>, 0))

parseSetCommand(parts) ==
    IF Len(parts) < minArgsForSet
    THEN ParseError(<<"SET requires at least 2 arguments">>)
    ELSE LET cmd == Command(CmdSet, parts[2], <<parts[3]>>, 0)
             maxArgsForSet == 4
         IN  IF Len(parts) > maxArgsForSet /\ Atoi(parts[4]).ok
             THEN Parsed([cmd EXCEPT !.TTL = WrapInt64(Atoi(parts[4]).val * Second)])
             ELSE Parsed(cmd)

parsePingCommand == Parsed(Command(CmdPing, <<>>, <<>>, 0))

ParseTextCommand(line) ==
    LET parts == Fields(line)
    IN  IF Len(parts) = 0 THEN ParseError(<<"empty command">>)
        ELSE LET cmdStr == ToUpper(parts[1])
             IN  CASE cmdStr = <<"G", "E", "T">> ->
                        parseKeyCommand(parts, CmdGet, exactArgsForGet, "GET")
                   [] cmdStr = <<"S", "E", "T">> -> parseSetCommand(parts)
                   [] cmdStr = <<"D", "E", "L">> ->
                        parseKeyCommand(parts, CmdDel, exactArgsForDel, "DEL")
                   [] cmdStr = <<"E", "X", "I", "S", "T", "S">> ->
                        parseKeyCommand(parts, CmdExists, exactArgsForExists, "EXISTS")
                   [] cmdStr = <<"I", "N", "C", "R">> ->
                        parseKeyCommand(parts, CmdIncr, exactArgsForIncr, "INCR")
                   [] cmdStr = <<"D", "E", "C", "R">> ->
                        parseKeyCommand(parts, CmdDecr, exactArgsForDecr, "DECR")
                   [] cmdStr = <<"P", "I", "N", "G">> -> parsePingCommand
                   [] OTHER -> ParseError(<<"unknown command: ", cmdStr>>)

\* The first tokens of the lines: the opcodes in upper, lower and mixed case,
\* and a word that is none.
TextOpcodes ==
    {<<"S", "E", "T">>, <<"s", "e", "t">>, <<"S", "e", "t">>, <<"G", "E", "T">>,
     <<"g", "e", "t">>, <<"D", "E", "L">>, <<"E", "X", "I", "S", "T", "S">>,
     <<"I", "N", "C", "R">>, <<"D", "E", "C", "R">>, <<"P", "I", "N", "G">>,
     <<"G", "E", "T", "S">>}

\* The tokens after the first: a key, a value, integers (zero, positive,
\* negative, too large for an int), and a word that is no integer.
TextTokens == {<<"k">>, <<"v">>, <<"0">>, <<"1">>, <<"-", "1">>, <<"9">>, <<"x">>}

\* The white space between two tokens, and before and after the line.
TextGaps == {<<" ">>, <<" ", "\t">>}
TextMargins == {<<>>, <<" ">>}

RECURSIVE Joined(_, _)
Joined(tokens, gap) ==
    IF Len(tokens) = 0 THEN <<>>
    ELSE IF Len(tokens) = 1 THEN tokens[1]
    ELSE tokens[1] \o gap \o Joined(Tail(tokens), gap)

notText == <<storeVars, threadVars, clientVars>>

\* A line of text: its tokens, the line, and what was parsed from it.
InitText ==
    /\ NoProgram
    /\ \E first \in TextOpcodes, n \in 0..MaxTextArgs :
         \E rest \in [1..n -> TextTokens] :
            \E gap \in TextGaps, margin \in TextMargins :
               LET tokens == <<first>> \o rest
               IN  wire = [at |-> "line", tokens |-> tokens,
                           line |-> margin \o Joined(tokens, gap) \o margin,
                           res |-> ParseError(NoErr)]

\* The empty line and the line of white space.
InitTextEmpty ==
    /\ NoProgram
    /\ \E margin \in TextMargins :
         wire = [at |-> "line", tokens |-> <<>>, line |-> margin, res |-> ParseError(NoErr)]

ParseText ==
    /\ wire.at = "line"
    /\ wire' = [wire EXCEPT !.at = "parsed", !.res = ParseTextCommand(wire.line)]
    /\ UNCHANGED notText

SpecText == (InitText \/ InitTextEmpty) /\ [][ParseText]_vars

\* ------------------------------------------------------------------- claims

AllFields == {"f", "g"}
AllElems == {<<"a">>, <<"b">>}
AllDeltas == MinInt64..MaxInt64

Live(d, t, key) == ~Missing(d, t, key)

RECURSIVE Reverse(_)
Reverse(s) == IF Len(s) = 0 THEN <<>> ELSE Reverse(Tail(s)) \o <<Head(s)>>

\* C1: LPush(k, v1, ..., vn) on an absent or list key makes vn the first
\* element and v1 the last of the pushed ones: the list afterwards is
\* vn, ..., v1 followed by the list before.
C1_LPushLastArgFirst ==
    (/\ last.op = "LPush"
     /\ (Missing(last.pre, now, last.key) \/ last.pre[last.key].Type = TypeList))
    => LET before == IF Missing(last.pre, now, last.key) THEN <<>>
                     ELSE last.pre[last.key].List
       IN  /\ data[last.key].List = Reverse(last.args.values) \o before
           /\ LPop(data, now, last.key).ret
                = [val |-> last.args.values[Len(last.args.values)], ok |-> TRUE]

\* What the code does instead: the values are put in front in argument order.
C1_LPushKeepsArgumentOrder ==
    (/\ last.op = "LPush"
     /\ (Missing(last.pre, now, last.key) \/ last.pre[last.key].Type = TypeList))
    => LET before == IF Missing(last.pre, now, last.key) THEN <<>>
                     ELSE last.pre[last.key].List
       IN  data[last.key].List = last.args.values \o before

\* The operations defined on each type only.
StringOps == {"Get", "Incr", "Decr", "IncrBy"}
HashOps == {"HGet", "HSet", "HDel", "HExists", "HGetAll"}
ListOps == {"LPush", "RPush", "LPop", "RPop", "LLen"}
SetOps == {"SAdd", "SRem", "SIsMember", "SMembers"}

TypeOf(op) ==
    IF op \in StringOps THEN TypeString
    ELSE IF op \in HashOps THEN TypeHash
    ELSE IF op \in ListOps THEN TypeList
    ELSE IF op \in SetOps THEN TypeSet
    ELSE "any"

\* The last operation was one of a single type, called on a live key that
\* held a value of another type.
TypeMismatched ==
    /\ TypeOf(last.op) # "any"
    /\ Live(last.pre, now, last.key)
    /\ last.pre[last.key].Type # TypeOf(last.op)

\* C2: an operation that is defined on one type only, applied to a live key
\* that holds another type, leaves the whole store unchanged: both for the
\* operation that ran last and for every such operation that could run now.
C2_TypeMismatchLeavesStore ==
    /\ TypeMismatched => data = last.pre
    /\ \A key \in Keys :
         Live(data, now, key) =>
           /\ data[key].Type # TypeString =>
                /\ Get(data, now, key).data = data
                /\ Incr(data, now, key).data = data
                /\ Decr(data, now, key).data = data
                /\ \A delta \in AllDeltas : IncrBy(data, now, key, delta).data = data
           /\ data[key].Type # TypeHash =>
                \A field \in AllFields :
                  /\ HGet(data, now, key, field).data = data
                  /\ HDel(data, now, key, field).data = data
                  /\ HExists(data, now, key, field).data = data
                  /\ HGetAll(data, now, key).data = data
                  /\ \A val \in AllElems : HSet(data, now, key, field, val).data = data
           /\ data[key].Type # TypeList =>
                /\ LPop(data, now, key).data = data
                /\ RPop(data, now, key).data = data
                /\ LLen(data, now, key).data = data
                /\ \A values \in ArgSeqs(AllElems, 2) :
                     /\ LPush(data, now, key, values).data = data
                     /\ RPush(data, now, key, values).data = data
           /\ data[key].Type # TypeSet =>
                /\ SMembers(data, now, key).data = data
                /\ \A member \in AllElems : SIsMember(data, now, key, member).data = data
                /\ \A members \in ArgSeqs(AllElems, 2) :
                     /\ SAdd(data, now, key, members).data = data
                     /\ SRem(data, now, key, members).data = data

\* HSet ran on a live string that expires, while the other key held a value.
C2_Witness ==
    /\ last.op = "HSet" /\ TypeMismatched
    /\ last.pre[last.key].Type = TypeString
    /\ last.pre[last.key].ExpiresAt # ZeroTime
    /\ "k2" \in DOMAIN data /\ last.key = "k1"

\* C4: on a key that is expired and not yet reaped, every operation returns
\* what it returns on the same store with the key's entry deleted (stated of
\* the operation that ran last, on the store it ran on).
C4_ExpiredLikeDeleted ==
    (last.key \in DOMAIN last.pre /\ isExpired(last.pre[last.key], now)) =>
      LET key == last.key
          gone == Delete(last.pre, key)
          args == last.args
      IN  /\ last.op = "Get" => last.ret = Get(gone, now, key).ret
          /\ last.op = "Exists" => last.ret = Exists(gone, now, key).ret
          /\ last.op = "TTL" => last.ret = TTL(gone, now, key).ret
          /\ last.op = "Persist" => last.ret = Persist(gone, now, key).ret
          /\ last.op = "Expire" => last.ret = Expire(gone, now, key, args.ttl).ret
          /\ last.op = "IncrBy" => last.ret = IncrBy(gone, now, key, args.delta).ret
          /\ last.op = "HGet" => last.ret = HGet(gone, now, key, args.field).ret
          /\ last.op = "HSet" => last.ret = HSet(gone, now, key, args.field, args.val).ret
          /\ last.op = "HDel" => last.ret = HDel(gone, now, key, args.field).ret
          /\ last.op = "HExists" => last.ret = HExists(gone, now, key, args.field).ret
          /\ last.op = "HGetAll" => last.ret = HGetAll(gone, now, key).ret
          /\ last.op = "LPush" => last.ret = LPush(gone, now, key, args.values).ret
          /\ last.op = "RPush" => last.ret = RPush(gone, now, key, args.values).ret
          /\ last.op = "LPop" => last.ret = LPop(gone, now, key).ret
          /\ last.op = "RPop" => last.ret = RPop(gone, now, key).ret
          /\ last.op = "LLen" => last.ret = LLen(gone, now, key).ret
          /\ last.op = "SAdd" => last.ret = SAdd(gone, now, key, args.members).ret
          /\ last.op = "SRem" => last.ret = SRem(gone, now, key, args.members).ret
          /\ last.op = "SMembers" => last.ret = SMembers(gone, now, key).ret
          /\ last.op = "SIsMember" =>
               last.ret = SIsMember(gone, now, key, args.member).ret
          /\ last.op = "Del" => last.ret = Del(gone, now, key).ret

\* Set stored a value with a ttl > 0 under the key, and the key was not
\* written since.
StoredExpiring(key) == stored[key].at # 0 /\ stored[key].ttl > 0

\* The clock times from now on (one past the last the clock reaches).
Future == now..(MaxTime + 1)

\* C5: a key stored by Set(k, v, D), D > 0, at time t0 and not written
\* afterwards reads as absent at every time t >= t0 + D, the instant
\* t = t0 + D included.
C5_AbsentFromExpiryInstant ==
    (/\ last.op = "Get" /\ StoredExpiring(last.key)
     /\ now >= stored[last.key].at + stored[last.key].ttl)
    => ~last.ret.ok

\* C5 as amended: such a key reads as absent at every time t > t0 + D; up to
\* and at the instant t = t0 + D itself Get still returns v.
C5_AbsentAfterExpiryInstant ==
    /\ \A key \in Keys :
         StoredExpiring(key) =>
           \A t \in Future :
             IF t > stored[key].at + stored[key].ttl
             THEN Get(data, t, key).ret = [val |-> <<>>, ok |-> FALSE]
             ELSE Get(data, t, key).ret = [val |-> stored[key].val, ok |-> TRUE]
    /\ (last.op = "Get" /\ StoredExpiring(last.key)) =>
         last.ret.ok = (now <= stored[last.key].at + stored[last.key].ttl)

\* Get found the key absent after its expiration, before any reaper pass.
C5_Witness ==
    /\ last.op = "Get" /\ StoredExpiring(last.key)
    /\ now > stored[last.key].at + stored[last.key].ttl
    /\ last.key \in DOMAIN data
    /\ ~last.ret.ok

\* C6: for a key stored by Set(k, v, D), D > 0, at time t0 and not written
\* afterwards, TTL at every time t0 <= t < t0 + D returns r with 0 < r <= D,
\* and no more at a later time than at an earlier one; a key stored without
\* expiration returns -1s, an absent key -2s.
C6_TTLMonotone ==
    \A key \in Keys :
      /\ StoredExpiring(key) =>
           \A t \in Future :
             t < stored[key].at + stored[key].ttl =>
               LET r == TTL(data, t, key).ret
               IN  /\ 0 < r /\ r <= stored[key].ttl
                   /\ \A u \in t..MaxTime + 1 :
                        u < stored[key].at + stored[key].ttl =>
                          TTL(data, u, key).ret <= r
      /\ (stored[key].at # 0 /\ stored[key].ttl <= 0) =>
           \A t \in Future : TTL(data, t, key).ret = (-1) * Second
      /\ Missing(data, now, key) => TTL(data, now, key).ret = (-2) * Second
      /\ (last.op = "TTL" /\ last.key = key /\ StoredExpiring(key)
             /\ now < stored[key].at + stored[key].ttl) =>
           (0 < last.ret /\ last.ret <= stored[key].at + stored[key].ttl - now)

\* TTL ran on such a key after the clock had advanced, and returned less
\* than the ttl the key was stored with.
C6_Witness ==
    /\ last.op = "TTL" /\ StoredExpiring(last.key)
    /\ now > stored[last.key].at
    /\ 0 < last.ret /\ last.ret < stored[last.key].ttl

\* s is a decimal numeral in its shortest form: an optional "-", then digits
\* without a leading zero; zero is "0".
Canonical(s) ==
    /\ Len(s) >= 1
    /\ LET body == IF s[1] = "-" THEN Tail(s) ELSE s
       IN  /\ Len(body) >= 1
           /\ \A i \in 1..Len(body) : IsDigit(body[i])
           /\ Len(body) > 1 => body[1] # "0"
           /\ s[1] = "-" => body # <<"0">>

\* s is the decimal encoding of the integer n.
Encodes(s, n) == Canonical(s) /\ ParseInt(s) = [val |-> n, ok |-> TRUE]

\* The key holds a live string that parses as an int64.
HoldsInt(d, t, key) ==
    /\ Live(d, t, key)
    /\ d[key].Type = TypeString
    /\ ParseInt(d[key].Str).ok

\* The store d with the string of key replaced by the encoding of n.
WithCounter(d, key, n) == Put(d, key, [d[key] EXCEPT !.Str = FormatInt(n)])

\* What IncrBy(key, delta) is to do on the store d at time t: create the
\* counter with delta, or add delta (as int64) to the integer held.
CounterResult(d, t, key, delta) ==
    IF Missing(d, t, key)
    THEN [data |-> Put(d, key, [NewValue(TypeString) EXCEPT !.Str = FormatInt(delta)]),
          ret |-> [val |-> delta, err |-> ""]]
    ELSE LET sum == WrapInt64(ParseInt(d[key].Str).val + delta)
         IN  [data |-> WithCounter(d, key, sum), ret |-> [val |-> sum, err |-> ""]]

\* C7: IncrBy(k, d) on an absent or expired key creates a string holding the
\* decimal encoding of d and returns d; on a live string holding the integer
\* c it stores and returns c + d (the int64 sum); Incr adds 1 and Decr adds
\* -1, so that successive Incr/Decr return the running sum.
C7_CounterSemantics ==
    /\ \A key \in Keys :
         (Missing(data, now, key) \/ HoldsInt(data, now, key)) =>
           /\ \A delta \in AllDeltas :
                LET r == IncrBy(data, now, key, delta)
                IN  /\ r = CounterResult(data, now, key, delta)
                    /\ r.data[key].Type = TypeString
                    /\ Encodes(r.data[key].Str, r.ret.val)
           /\ Incr(data, now, key) = CounterResult(data, now, key, 1)
           /\ Decr(data, now, key) = CounterResult(data, now, key, -1)
    /\ (/\ last.op \in {"Incr", "Decr"}
        /\ (Missing(last.pre, now, last.key) \/ HoldsInt(last.pre, now, last.key)))
       => LET step == IF last.op = "Incr" THEN 1 ELSE -1
              before == IF Missing(last.pre, now, last.key) THEN 0
                        ELSE ParseInt(last.pre[last.key].Str).val
          IN  /\ last.ret = [val |-> WrapInt64(before + step), err |-> ""]
              /\ Encodes(data[last.key].Str, last.ret.val)

\* Decr returned 2 on the counter that three Incr had brought to 3.
C7_Witness ==
    /\ last.op = "Decr"
    /\ HoldsInt(last.pre, now, last.key)
    /\ last.pre[last.key].Str = <<"3">>
    /\ last.ret = [val |-> 2, err |-> ""]
    /\ data[last.key].Str = <<"2">>

\* IncrBy(key, 0) ran on a live string that parses as an int64.
ZeroAdded ==
    /\ last.op = "IncrBy" /\ last.args.delta = 0
    /\ HoldsInt(last.pre, now, last.key)

\* C8: IncrBy(k, 0) on a live key whose string is a valid int64 returns that
\* integer and leaves the stored bytes, the type and the expiration unchanged,
\* whatever the form of the string.
C8_ZeroLeavesBytes ==
    ZeroAdded =>
      /\ last.ret = [val |-> ParseInt(last.pre[last.key].Str).val, err |-> ""]
      /\ data = last.pre

\* C8 as amended: IncrBy(k, 0) returns that integer and leaves the type, the
\* expiration and every other key unchanged; the stored string becomes the
\* decimal encoding of the integer, so its bytes are unchanged exactly when
\* it was that encoding already.
C8_ZeroLeavesInteger ==
    /\ ZeroAdded =>
         LET before == last.pre[last.key]
             c == ParseInt(before.Str).val
         IN  /\ last.ret = [val |-> c, err |-> ""]
             /\ Encodes(data[last.key].Str, c)
             /\ data = Put(last.pre, last.key,
                           [before EXCEPT !.Str = data[last.key].Str])
             /\ (data = last.pre) = Canonical(before.Str)
    /\ \A key \in Keys :
         HoldsInt(data, now, key) =>
           LET r == IncrBy(data, now, key, 0)
               c == ParseInt(data[key].Str).val
           IN  /\ r.ret = [val |-> c, err |-> ""]
               /\ Encodes(r.data[key].Str, c)
               /\ r.data = Put(data, key, [data[key] EXCEPT !.Str = r.data[key].Str])

\* IncrBy(k, 0) ran on the expiring string "+1" and left "1".
C8_Witness ==
    /\ ZeroAdded
    /\ last.pre[last.key].Str = <<"+", "1">>
    /\ last.pre[last.key].ExpiresAt # ZeroTime
    /\ data[last.key].Str = <<"1">>
    /\ data[last.key].ExpiresAt = last.pre[last.key].ExpiresAt

\* The commands defined on each type only.
StringCommands == {CmdGet, CmdIncr, CmdDecr, CmdIncrBy, CmdDecrBy}
HashCommands == {CmdHGet, CmdHSet, CmdHDel, CmdHGetAll, CmdHExists}
ListCommands == {CmdLPush, CmdRPush, CmdLPop, CmdRPop, CmdLLen}
SetCommands == {CmdSAdd, CmdSRem, CmdSMembers, CmdSIsMember}

CommandTypeOf(type) ==
    IF type \in StringCommands THEN TypeString
    ELSE IF type \in HashCommands THEN TypeHash
    ELSE IF type \in ListCommands THEN TypeList
    ELSE IF type \in SetCommands THEN TypeSet
    ELSE "any"

\* The server executed last a command of a single type, on a live key that
\* held a value of another type.
CommandTypeMismatched ==
    /\ last.op = "command"
    /\ CommandTypeOf(last.args.Type) # "any"
    /\ Live(last.pre, now, last.key)
    /\ last.pre[last.key].Type # CommandTypeOf(last.args.Type)

\* C3: every command applied to a live key that holds a value of another
\* type is answered with an Error response, never with a success response:
\* HSET on a string, list or set is not answered OK, and LPUSH, RPUSH and
\* SADD on a value of another type are not answered with an Int.
C3_TypeMismatchIsError ==
    CommandTypeMismatched => last.ret.Type = RespError

\* The counter commands, those with a delta carrying one.
CounterCommand(cmd) ==
    \/ cmd.Type \in {CmdIncr, CmdDecr}
    \/ cmd.Type \in {CmdIncrBy, CmdDecrBy} /\ Len(cmd.Args) > 0

\* key is live in d at t and holds a string that does not parse as an int64.
HoldsNonInteger(d, t, key) ==
    /\ Live(d, t, key)
    /\ d[key].Type = TypeString
    /\ ~ParseInt(d[key].Str).ok

\* C9: INCR, DECR, INCRBY and DECRBY on a live key holding a string that
\* does not parse as a signed 64-bit decimal integer are answered
\* Error("value is not an integer") and leave the store unchanged.
C9_ValueError ==
    /\ (/\ last.op = "command"
        /\ CounterCommand(last.args)
        /\ HoldsNonInteger(last.pre, now, last.key))
       => /\ last.ret = ErrorResponse(<<"value is not an integer">>)
          /\ data = last.pre
    /\ \A key \in Keys, type \in {CmdIncr, CmdDecr, CmdIncrBy, CmdDecrBy},
          text \in CounterCommands.deltas :
         HoldsNonInteger(data, now, key) =>
           executeCommand(data, now, Command(type, key, <<text>>, 0), <<>>)
             = [data |-> data, ret |-> ErrorResponse(<<"value is not an integer">>)]

\* DECRBY with a delta ran on a live key holding the string "99", which is
\* decimal but out of the int64 range, was answered with the value error and
\* left the store as it was.
C9_Witness ==
    /\ last.op = "command"
    /\ last.args.Type = CmdDecrBy
    /\ Len(last.args.Args) > 0
    /\ HoldsNonInteger(last.pre, now, last.key)
    /\ last.pre[last.key].Str = <<"9", "9">>
    /\ last.ret.Type = RespError
    /\ data = last.pre

\* The decimal text of the integer n, which need not be an int64.
DecimalText(n) == IF n < 0 THEN <<"-">> \o FormatUint(0 - n) ELSE FormatUint(n)

\* What the server answers and leaves when it executes, on the store d at t,
\* the command of the given type on key with the one argument text.
Executed(d, t, type, key, text) ==
    executeCommand(d, t, Command(type, key, <<text>>, 0), <<>>)

\* C10: for every delta text that parses as an int64 d, DECRBY k d has the
\* response and the resulting state of INCRBY k (-d); and with a delta text
\* that does not parse, INCRBY has the response and the resulting state of
\* INCRBY k 1 and DECRBY those of DECRBY k 1: the counter decreases by 1.
C10_DeltaHandling ==
    (/\ last.op = "command"
     /\ last.args.Type \in {CmdIncrBy, CmdDecrBy}
     /\ Len(last.args.Args) > 0)
    => LET parsed == parseIntArg(last.args.Args[1])
           result == [data |-> data, ret |-> last.ret]
       IN  /\ (parsed.ok /\ last.args.Type = CmdDecrBy)
                => result = Executed(last.pre, now, CmdIncrBy, last.key,
                                     DecimalText(0 - parsed.val))
           /\ (~parsed.ok /\ last.args.Type = CmdIncrBy)
                => result = Executed(last.pre, now, CmdIncrBy, last.key, <<"1">>)
           /\ (~parsed.ok /\ last.args.Type = CmdDecrBy)
                => result = Executed(last.pre, now, CmdDecrBy, last.key, <<"1">>)

\* The members of the set that key holds live in d at t; none when the key is
\* missing or expired.
MembersOf(d, t, key) == IF Missing(d, t, key) THEN {} ELSE d[key].Set

\* key is missing or expired in d at t, or holds a set.
AbsentOrSet(d, t, key) == Missing(d, t, key) \/ d[key].Type = TypeSet

\* C11: SAdd(k, xs) on an absent or set key returns the number of distinct
\* members of xs that were not in the set, and SMembers(k) afterwards is the
\* union of the members before and xs; SRem(k, xs) returns the number of
\* members it removed, and SIsMember afterwards tells the members that remain.
C11_SetSemantics ==
    /\ (last.op = "SAdd" /\ AbsentOrSet(last.pre, now, last.key))
       => LET prior == MembersOf(last.pre, now, last.key)
              xs == Range(last.args.members)
          IN  /\ last.ret = Cardinality(xs \ prior)
              /\ SMembers(data, now, last.key).ret = prior \cup xs
              /\ \A m \in AllElems :
                   SIsMember(data, now, last.key, m).ret = (m \in prior \cup xs)
    /\ (last.op = "SRem" /\ AbsentOrSet(last.pre, now, last.key))
       => LET prior == MembersOf(last.pre, now, last.key)
              xs == Range(last.args.members)
          IN  /\ last.ret = Cardinality(xs \cap prior)
              /\ SMembers(data, now, last.key).ret = prior \ xs
              /\ \A m \in AllElems :
                   SIsMember(data, now, last.key, m).ret = (m \in prior \ xs)

\* SAdd ran on a live set with a new member given twice and an old one, and
\* returned 1.
C11_Witness ==
    /\ last.op = "SAdd"
    /\ ~Missing(last.pre, now, last.key)
    /\ last.pre[last.key].Type = TypeSet
    /\ last.pre[last.key].Set = {<<"a">>}
    /\ last.args.members = <<<<"b">>, <<"a">>, <<"b">>>>
    /\ last.ret = 1
    /\ data[last.key].Set = {<<"a">>, <<"b">>}

\* The list that key holds live in d at t; empty when the key is missing or
\* expired.
ListOf(d, t, key) == IF Missing(d, t, key) THEN <<>> ELSE d[key].List

\* key is missing or expired in d at t, or holds a list.
AbsentOrList(d, t, key) == Missing(d, t, key) \/ d[key].Type = TypeList

NotFound == [val |-> <<>>, ok |-> FALSE]

\* C12: RPush appends its values in argument order at the tail and every push
\* returns the new length; LPop removes and returns the first element, RPop
\* the last, and both report absent on an empty or missing list.  On an
\* absent key: after LPush a, LPush b, LPop yields b; after RPush a, RPush b,
\* RPop yields b; after LPush a, RPush b, LLen is 2.
C12_ListLaws ==
    /\ (last.op = "RPush" /\ AbsentOrList(last.pre, now, last.key))
       => /\ data[last.key].List
               = ListOf(last.pre, now, last.key) \o last.args.values
          /\ last.ret = Len(data[last.key].List)
    /\ (last.op = "LPush" /\ AbsentOrList(last.pre, now, last.key))
       => /\ last.ret = Len(data[last.key].List)
          /\ last.ret = Len(ListOf(last.pre, now, last.key)) + Len(last.args.values)
    /\ (last.op \in {"LPop", "RPop"} /\ AbsentOrList(last.pre, now, last.key))
       => LET before == ListOf(last.pre, now, last.key)
          IN  IF before = <<>>
              THEN last.ret = NotFound /\ data = last.pre
              ELSE IF last.op = "LPop"
              THEN /\ last.ret = [val |-> before[1], ok |-> TRUE]
                   /\ data[last.key].List = Tail(before)
              ELSE /\ last.ret = [val |-> before[Len(before)], ok |-> TRUE]
                   /\ data[last.key].List = SubSeq(before, 1, Len(before) - 1)
    /\ \A key \in Keys, a \in AllElems, b \in AllElems :
         Missing(data, now, key) =>
           /\ LPop(LPush(LPush(data, now, key, <<a>>).data, now, key, <<b>>).data,
                   now, key).ret = [val |-> b, ok |-> TRUE]
           /\ RPop(RPush(RPush(data, now, key, <<a>>).data, now, key, <<b>>).data,
                   now, key).ret = [val |-> b, ok |-> TRUE]
           /\ LLen(RPush(LPush(data, now, key, <<a>>).data, now, key, <<b>>).data,
                   now, key).ret = 2

\* RPop ran on the live list a, b, returned b and left a.
C12_Witness ==
    /\ last.op = "RPop"
    /\ ~Missing(last.pre, now, last.key)
    /\ last.pre[last.key].Type = TypeList
    /\ last.pre[last.key].List = <<<<"a">>, <<"b">>>>
    /\ last.ret = [val |-> <<"b">>, ok |-> TRUE]
    /\ data[last.key].List = <<<<"a">>>>

\* No goroutine holds the lock of the store.
LockFree == mu.writer = "none" /\ mu.readers = {}

\* C13: under any interleaving of concurrent store operations, every
\* operation takes effect at one point between its call and its return: what
\* it returns and what the store holds are what the operations give run one
\* at a time in the order in which they took the lock.  Concurrent IncrBy
\* calls lose no update: with IncrBy alone called, the counter is its value
\* before plus the sum of all deltas.
C13_Linearizable ==
    /\ LockFree => data = serial
    /\ \A c \in Conns : out[c].op # "none" => out[c] = expect[c]
    /\ (tally.pure /\ tally.n > 0 /\ LockFree)
       => /\ ~Missing(data, now, "k1")
          /\ data["k1"].Str = FormatInt(WrapInt64(tally.initial + tally.sum))

\* The three goroutines each called IncrBy while another held the lock, all
\* calls returned, and the counter holds the sum.
C13_Witness ==
    /\ tally.pure /\ tally.n = 3 /\ tally.initial = 1 /\ tally.sum = 5
    /\ LockFree
    /\ \A c \in Conns : pc[c] = "idle" /\ out[c].op = "IncrBy"
    /\ ~Missing(data, now, "k1")
    /\ data["k1"].Str = FormatInt(WrapInt64(6))

\* The connections that the pool p handed out and that are still in use.
InUseBy(p) == {id \in DOMAIN conn : conn[id].state = "inuse" /\ conn[id].by = p}

\* C14: for every connection pool, the connections parked in it and the
\* connections it handed out that are still in use are never more than
\* maxConns together.
C14_PoolBound ==
    \A p \in DOMAIN poolObj :
        Len(poolObj[p].connections) + Cardinality(InUseBy(p)) <= MaxConnsPerNode

\* C15: the routing step of a command (ring lookup, then pool lookup) never
\* sees a torn membership: no attempt obtains from the ring a server for
\* which the pool map has no pool, so no attempt ends with "no connection
\* pool for node"; and whenever no membership change holds c.mu, the ring and
\* the pool map name the same servers.
C15_RoutingNotTorn ==
    /\ \A g \in Callers : "no connection pool for node" \notin Range(call[g].errs)
    /\ cmu = "none" => ring.nodes = DOMAIN pools

\* C16: a connection on which an attempt failed (arming a deadline, writing
\* the command, reading the response) is closed and never parked in a pool:
\* every connection parked in a pool had a whole request/response exchange
\* succeed on it since it was last obtained.
C16_DiscardOnFailure ==
    \A id \in DOMAIN conn : conn[id].state = "idle" => conn[id].good

\* What a call that is over has done: it returned a response after failed
\* attempts and one that succeeded, or an error after failed attempts only.
Succeeded(c) == c.pc = "idle" /\ c.result = "ok"
Failed(c) == c.pc = "idle" /\ c.result = "error"

C17_Bounded ==
    \A g \in Callers :
        LET c == call[g]
        IN  /\ c.tries <= RetryAttempts + 1
            /\ c.result = "ok" => Succeeded(c) /\ Len(c.errs) = c.tries - 1
            /\ c.result = "error"
               => /\ Failed(c)
                  /\ c.tries = RetryAttempts + 1
                  /\ Len(c.errs) = c.tries
                  /\ c.lastErr = c.errs[Len(c.errs)]

C18_RoundTrip ==
    (wire.at = "decoded" /\ wire.msg # NoMessage)
        => /\ wire.res.err = NoErr
           /\ ~wire.res.crashed
           /\ wire.res.msg = wire.msg

\* C19: decoding a payload never panics and never makes a slice of more
\* elements than the payload has bytes; a decoding that fails returns an
\* error and no message.
C19_MalformedRejected ==
    wire.at = "decoded"
        => /\ ~wire.res.crashed
           /\ wire.res.allocated <= Len(wire.bytes)
           /\ wire.res.err # NoErr => wire.res.msg = NoMessage

\* The frames of the stream that are whole.
WholeFrames == IF wire.cut > 0 THEN Len(wire.msgs) - 1 ELSE Len(wire.msgs)

\* C20: the reader of a stream of k frames yields the k messages that were
\* framed, in order; when the last frame is short of one or more of its
\* bytes it yields the k - 1 messages before it and then one I/O error; it
\* never yields a message of a partial frame, and what ends the reading is
\* the end of the stream, never a decoding error.
C20_FrameBoundaries ==
    wire.at \in {"reading", "closed"}
        => /\ \A i \in 1..Len(wire.got) :
                IF wire.got[i].err = NoErr
                THEN i <= WholeFrames /\ wire.got[i].msg = wire.msgs[i]
                ELSE /\ i = Len(wire.got) /\ i = WholeFrames + 1
                     /\ wire.got[i].msg = NoMessage
                     /\ wire.got[i].err \in {EOF, ErrUnexpectedEOF}
           /\ wire.at = "closed" => Len(wire.got) = WholeFrames + 1
           /\ wire.cut > 0 /\ wire.at = "closed"
                => wire.got[Len(wire.got)].err # NoErr

\* Two responses were framed, the last frame lost some but not all of the
\* bytes of its payload, and the reader yielded the first response and then
\* an unexpected end of the stream.
C20_Witness ==
    /\ wire.at = "closed" /\ wire.kind = "response"
    /\ Len(wire.msgs) = 2
    /\ wire.cut > 0 /\ wire.cut < wire.tail - protocolHeaderSize
    /\ Len(wire.got) = 2
    /\ wire.got[1] = [msg |-> wire.msgs[1], err |-> NoErr]
    /\ wire.got[2] = [msg |-> NoMessage, err |-> ErrUnexpectedEOF]

\* C23: a command whose opcode N is none of the 26 opcodes 0..25 is answered
\* Error("unknown command: N") and leaves the store as it was.
C23_UnknownOpcode ==
    (last.op = "command" /\ last.args.Type \notin CmdGet..CmdPing)
        => /\ last.ret = ErrorResponse(<<"unknown command: ", last.args.Type>>)
           /\ data = last.pre

\* The opcode 255 was sent for a key that holds a value, and the error names
\* 255.
C23_Witness ==
    /\ last.op = "command"
    /\ last.args.Type = 255
    /\ Live(last.pre, now, last.key)
    /\ last.ret = ErrorResponse(<<"unknown command: ", 255>>)
    /\ data = last.pre

\* The ring positions that belong to node in the ring r.
PositionsOf(r, node) == {h \in DOMAIN r.ring : r.ring[h] = node}

\* C27: AddNode(S) of a server S that is no member leaves the server of
\* every key as it was or makes it S, never another server that was there
\* before, also when hashes of virtual nodes collide.
C27_GrowthStable ==
    (wire.at = "ring" /\ wire.op = "AddNode" /\ wire.node \notin wire.pre.nodes)
        => \A k \in RingKeys :
             RingGetNode(ring, k) \in {RingGetNode(wire.pre, k), wire.node}

\* C was added to the ring of A and B, where one virtual node of C collides
\* with one of A: a key of A is now a key of C, a key of B is still one of B.
C27_Witness ==
    /\ wire.at = "ring" /\ wire.op = "AddNode" /\ wire.node = "C"
    /\ wire.pre.nodes = {"A", "B"}
    /\ PositionsOf(wire.pre, "A") \cap Range(VirtualHashes("C")) # {}
    /\ RingGetNode(wire.pre, "k4") = "A" /\ RingGetNode(ring, "k4") = "C"
    /\ RingGetNode(wire.pre, "k1") = "B" /\ RingGetNode(ring, "k1") = "B"

\* C28: RemoveNode(S) of a member S changes the server of no key that was
\* not a key of S, and every other server keeps all of its positions on the
\* ring, also when hashes of virtual nodes of S and of it collide.
C28_RemovalStable ==
    (wire.at = "ring" /\ wire.op = "RemoveNode" /\ wire.node \in wire.pre.nodes)
        => /\ \A k \in RingKeys :
                RingGetNode(wire.pre, k) # wire.node
                    => RingGetNode(ring, k) = RingGetNode(wire.pre, k)
           /\ \A t \in wire.pre.nodes \ {wire.node} :
                PositionsOf(wire.pre, t) \subseteq PositionsOf(ring, t)

\* C29: GetNode gives the empty result exactly when there is no member;
\* with members it gives a member, the owner of the first position with a
\* hash that is at least the hash of the key, or of the first position of
\* all when there is none.
C29_LookupResult ==
    wire.at = "ring"
        => \A k \in RingKeys :
             LET node == RingGetNode(ring, k)
                 after == {h \in DOMAIN ring.ring : h >= hashKey(<<k>>)}
                 least(hs) == CHOOSE h \in hs : \A g \in hs : h <= g
             IN  /\ node = "" <=> RingGetNodes(ring) = {}
                 /\ node # "" =>
                      /\ node \in RingGetNodes(ring)
                      /\ node = ring.ring[least(IF after = {} THEN DOMAIN ring.ring
                                                ELSE after)]

\* C21: on a connection of the server and on one of the client, a frame
\* whose length prefix exceeds 1 MiB is rejected with the "too large" error
\* after the 4 bytes of the header and no byte of the payload were taken from
\* the stream, and the connection is closed; a frame whose length prefix is
\* 1 MiB and whose payload is in the stream is read whole, without an error.
C21_FrameSizeLimit ==
    wire.at = "conn"
        => \A i \in 1..Len(wire.frames) :
             LET frame == wire.frames[i]
                 what == IF wire.side = "server" THEN "command" ELSE "response"
             IN  /\ frame.length > 1024 * 1024
                       => /\ frame.err = <<what, " too large">>
                          /\ frame.taken = protocolHeaderSize
                          /\ i = Len(wire.frames)
                          /\ wire.pc = "closed"
                 /\ (/\ frame.length = 1024 * 1024
                     /\ frame.at + protocolHeaderSize + 1024 * 1024 <= StreamLen(wire.in))
                       => /\ frame.err = NoErr
                          /\ frame.taken = protocolHeaderSize + 1024 * 1024

\* A frame of 1 MiB was read and served, and the header after it, which
\* announces more, closed the connection.
C21_Witness ==
    /\ wire.at = "conn" /\ wire.side = "server" /\ wire.pc = "closed"
    /\ Len(wire.sent) = 1
    /\ Len(wire.frames) = 2
    /\ wire.frames[1].length = 1024 * 1024 /\ wire.frames[1].err = NoErr
    /\ wire.frames[2].length = 1024 * 1024 + 1

\* A connection of the server.
ServerConn == wire.at = "conn" /\ wire.side = "server"

\* C22: a protocol error on a connection of the server ends it: an error of
\* a read or of the decoding closes the connection and is the last thing
\* read, and after a command of an unknown type no further frame is read
\* and no further command executed.
C22_ProtocolErrorTerminates ==
    ServerConn
        => /\ \A i \in 1..Len(wire.frames) :
                 wire.frames[i].err # NoErr
                     => i = Len(wire.frames) /\ wire.pc = "closed"
           /\ \A i \in 1..Len(wire.received) :
                 wire.received[i].Type \notin CmdGet..CmdPing
                     => i = Len(wire.received) /\ Len(wire.frames) = i

\* C24: on a connection of the server at most one command is in flight and
\* no frame is read before the response to the command before it was
\* written; every response written answers the command received at its
\* place, one response a command; and the connection is closed as soon as a
\* read, the decoding, a deadline or a write failed.
C24_Lockstep ==
    ServerConn
        => /\ Len(wire.sent) <= Len(wire.received)
           /\ Len(wire.received) <= Len(wire.sent) + 1
           /\ Len(wire.frames) <= Len(wire.sent) + 1
           /\ wire.pc = "read" => Len(wire.received) = Len(wire.sent)
           /\ wire.pc \in {"execute", "write"}
                 => /\ Len(wire.received) = Len(wire.sent) + 1
                    /\ wire.cmd = wire.received[Len(wire.received)]
           /\ \A i \in 1..Len(wire.sent) : wire.sent[i].cmd = wire.received[i]
           /\ wire.err # NoErr <=> wire.pc = "closed"

\* Two different commands were answered, and the third read failed.
C24_Witness ==
    /\ ServerConn /\ wire.pc = "closed"
    /\ Len(wire.sent) = 2 /\ wire.sent[1].cmd # wire.sent[2].cmd

\* The command lacks an argument that its type requires.
LacksArgument(cmd) ==
    \/ cmd.Type \in {CmdSet, CmdIncrBy, CmdDecrBy, CmdHGet, CmdHDel, CmdHExists,
                      CmdLPush, CmdRPush, CmdSAdd, CmdSRem, CmdSIsMember}
          /\ Len(cmd.Args) = 0
    \/ cmd.Type = CmdHSet /\ Len(cmd.Args) < 2

\* C26: a command that lacks a required argument gets an Error response and
\* leaves the store as it was, and the connection is not closed for it: it
\* is closed after an error of a read, a write, a deadline or the decoding
\* only.
C26_ArityErrors ==
    ServerConn
        => /\ (wire.pc = "write" /\ LacksArgument(wire.cmd))
                 => wire.resp.Type = RespError /\ data = last.pre
           /\ \A i \in 1..Len(wire.sent) :
                 LacksArgument(wire.sent[i].cmd)
                     => /\ wire.sent[i].resp.Type = RespError
                        /\ wire.pc = "closed" => wire.err # NoErr
           /\ data \in ConnStores \/ \E i \in 1..Len(wire.received) :
                                        ~LacksArgument(wire.received[i])

\* A command without its argument was answered while "k" held a string, and
\* the command after it was answered too.
C26_Witness ==
    /\ ServerConn
    /\ Len(wire.sent) = 2 /\ LacksArgument(wire.sent[1].cmd)
    /\ data # EmptyStore

\* C25: once Stop closed the listener of a started server, Start returns in
\* the end.
C25_StartReturns ==
    (wire.at = "listener" /\ wire.stop = "closed")
        ~> (wire.at = "listener" /\ wire.start = "returned")

\* C30: a Ping that returned an error found no node of the cluster that
\* could be reached; with a node that can be reached Ping returns nil.
C30_PingReachable ==
    wire.at = "network"
        => \A g \in Callers :
             (call[g].pc = "idle" /\ call[g].result = "error")
                 => RingGetNodes(ring) \subseteq wire.down

\* C31: Client.Set with a positive ttl, a whole number of seconds or not,
\* stores a key that a Get after the duration has passed does not find; with
\* ttl = 0 the key is found whenever Get is called.
C31_SetExpires ==
    (wire.at = "remote" /\ wire.pc = "idle" /\ wire.cmd # NoCommand
        /\ wire.cmd.Type = CmdGet /\ wire.served > 0) =>
        /\ (wire.ttl > 0 /\ now > wire.served + wire.ttl) =>
              wire.ret = <<"key not found">>
        /\ wire.ttl = 0 => wire.ret = <<"v">>

\* C32: the line "SET key value n" with an integer n parses to a SET command
\* with that key, the one argument value and a TTL of n seconds, the line
\* "SET key value" to one with TTL 0, whatever the case of the letters of SET.
C32_TextSet ==
    (wire.at = "parsed" /\ Len(wire.tokens) \in {3, 4}
        /\ wire.tokens[1] \in {<<"S", "E", "T">>, <<"s", "e", "t">>, <<"S", "e", "t">>}) =>
        LET n == ParseInt(wire.tokens[Len(wire.tokens)])
        IN  /\ Len(wire.tokens) = 3 =>
                 wire.res = Parsed(Command(CmdSet, wire.tokens[2], <<wire.tokens[3]>>, 0))
            /\ (Len(wire.tokens) = 4 /\ n.ok /\ n.val * Second \in MinInt64..MaxInt64) =>
                 wire.res = Parsed(Command(CmdSet, wire.tokens[2], <<wire.tokens[3]>>,
                                           n.val * Second))

\* C33: PERSIST returns 1 exactly when the key is live and has an expiration,
\* which it removes (TTL then returns -1); it returns 0 when the key is
\* absent, expired or has no expiration.
C33_PersistResult ==
    (last.op = "command" /\ last.args.Type = CmdPersist) =>
        LET key == last.key
            had == Live(last.pre, now, key) /\ last.pre[key].ExpiresAt # ZeroTime
        IN  /\ last.ret = IntResponse(BoolInt(had))
            /\ last.ret.Int = 1 => handleTTL(data, now, last.args).ret = IntResponse(-1)

\* Whether the expiration of the value is past at t.
Past(value, t) == value.ExpiresAt # ZeroTime /\ t > value.ExpiresAt

\* C34: while the reaper is in a pass no other operation is between taking
\* and releasing the store's lock, and what the pass has visited is gone if
\* its expiration was past at the time of the pass and is otherwise as it
\* was, type, contents and expiration; the pass adds and changes nothing.
C34_ReaperPass ==
    (wire.at = "reaper" /\ wire.pc \in {"locked", "ranging"}) =>
        /\ mu.writer = "reaper" /\ mu.readers = {}
        /\ \A c \in Conns : pc[c] \in {"idle", "called"}
        /\ wire.pc = "ranging" =>
              /\ DOMAIN data \subseteq DOMAIN wire.pre
              /\ \A k \in DOMAIN wire.pre :
                    IF k \notin wire.left /\ Past(wire.pre[k], wire.now)
                    THEN k \notin DOMAIN data
                    ELSE k \in DOMAIN data /\ data[k] = wire.pre[k]

\* A pass is over that removed an entry and kept one that expires at the
\* time of the pass, while a goroutine waits for the lock.
C34_Witness ==
    /\ wire.at = "reaper" /\ wire.pc = "ranging" /\ wire.left = {}
    /\ \E k \in DOMAIN wire.pre : k \notin DOMAIN data
    /\ \E k \in DOMAIN data : data[k].ExpiresAt = wire.now
    /\ \E c \in Conns : pc[c] = "called"

\* C35: a Get on a pool that was closed, waiting when the pool is closed or
\* called afterwards on a pool looked up before, returns an error: no call
\* comes back from Get with a nil connection and a nil error.
C35_ClosedPoolError ==
    \A g \in Callers :
        (call[g].pool \in DOMAIN poolObj /\ poolObj[call[g].pool].closed) =>
            ~(call[g].pc = "io" /\ call[g].conn = 0)

\* C36: the connections parked in a pool are connections to the server of
\* that pool, and a call exchanges its command on a connection to the server
\* the ring gave for its key in that attempt.
C36_ConnectionsStay ==
    /\ \A p \in DOMAIN poolObj :
          \A i \in 1..Len(poolObj[p].connections) :
              conn[poolObj[p].connections[i]].address = poolObj[p].address
    /\ \A g \in Callers :
          (call[g].pc = "io" /\ call[g].conn # 0) =>
              conn[call[g].conn].address = call[g].node

\* The goroutines that are dialing for the pool p.
DialingFor(p) == {g \in Callers : call[g].pc = "dial" /\ call[g].pool = p}

\* C37: whenever no Get of a pool is dialing, the created counter of the pool
\* is the number of its live connections, those parked in it and those it
\* handed out that are in use.
C37_NoCapacityLeak ==
    \A p \in DOMAIN poolObj :
        DialingFor(p) = {} =>
            poolObj[p].created = Len(poolObj[p].connections) + Cardinality(InUseBy(p))

\* The integer the counter k1 holds in the store d, 0 when it is absent.
CounterOf(d) == IF "k1" \in DOMAIN d THEN ParseInt(d["k1"].Str).val ELSE 0

\* C38: the server executes the command of one call of Incr or Decr at most
\* once, whatever attempts fail and are retried, and a call of Incr that
\* returns n has taken the counter from n - 1 to n.
C38_AtMostOnce ==
    wire.at = "retry" =>
        /\ wire.applied <= 1
        /\ (wire.pc = "idle" /\ wire.result = "ok" /\ wire.cmd.Type = CmdIncr
                /\ wire.resp.Type = RespInt) =>
              wire.resp.Int = WrapInt64(CounterOf(wire.before) + 1)

\* C39: at every clock value and for every key, TTL returns -2 seconds
\* exactly when Exists returns false, and for a key that holds a string
\* exactly when Get finds nothing.
C39_PresenceAgrees ==
    \A key \in Keys :
        LET gone == TTL(data, now, key).ret = (-2) * Second
        IN  /\ gone <=> ~Exists(data, now, key).ret
            /\ (key \in DOMAIN data /\ data[key].Type = TypeString) =>
                  (gone <=> ~Get(data, now, key).ret.ok)

\* The writes that create the value they write to when the key is absent.
CreatingOps == {"IncrBy", "Incr", "Decr", "HSet", "LPush", "RPush", "SAdd"}

\* C40: IncrBy, HSet, LPush, RPush or SAdd on a key whose entry is expired
\* and not reaped leaves what it leaves when the key is absent: a value of
\* the operation's type, made of the arguments alone, with no expiration.
C40_FreshStart ==
    (last.op \in CreatingOps /\ last.key \in DOMAIN last.pre
        /\ Past(last.pre[last.key], now)) =>
        LET key == last.key
            args == last.args
            fresh == [k \in (DOMAIN last.pre) \ {key} |-> last.pre[k]]
            delta == IF last.op = "IncrBy" THEN args.delta
                     ELSE IF last.op = "Incr" THEN 1 ELSE -1
        IN  /\ key \in DOMAIN data /\ data[key].ExpiresAt = ZeroTime
            /\ \A k \in DOMAIN fresh : k \in DOMAIN data /\ data[k] = fresh[k]
            /\ last.op \in {"IncrBy", "Incr", "Decr"} =>
                  /\ data[key] = [NewValue(TypeString) EXCEPT !.Str = FormatInt(delta)]
                  /\ last.ret = IncrBy(fresh, now, key, delta).ret
            /\ last.op = "HSet" =>
                  /\ data[key].Type = TypeHash
                  /\ DOMAIN data[key].Hash = {args.field}
                  /\ data[key].Hash[args.field] = args.val
                  /\ data[key] = HSet(fresh, now, key, args.field, args.val).data[key]
            /\ last.op \in {"LPush", "RPush"} =>
                  /\ data[key].Type = TypeList
                  /\ Len(data[key].List) = Len(args.values)
                  /\ Range(data[key].List) = Range(args.values)
                  /\ last.ret = Len(args.values)
                  /\ last.op = "LPush" => data[key] = LPush(fresh, now, key, args.values).data[key]
                  /\ last.op = "RPush" => data[key] = RPush(fresh, now, key, args.values).data[key]
            /\ last.op = "SAdd" =>
                  /\ data[key].Type = TypeSet
                  /\ data[key].Set = Range(args.members)
                  /\ last.ret = Cardinality(Range(args.members))
                  /\ data[key] = [NewValue(TypeSet) EXCEPT !.Set = Range(args.members)]

\* RPush ran on a key that held an expired list with an element, and HSet on
\* a key that held an expired list.
C40_Witness ==
    /\ last.op \in {"RPush", "HSet"}
    /\ last.key \in DOMAIN last.pre
    /\ Past(last.pre[last.key], now)
    /\ last.pre[last.key].Type = TypeList
    /\ Len(last.pre[last.key].List) > 0
    /\ last.op = "RPush"

====
